---- MODULE Spec2Model ----
(***************************************************************************)
(* Model of the ACIP GPU gateway request pipeline: the /api/v1 middleware  *)
(* publishes one gateway:request:incoming event per request; the auth,     *)
(* rate-limit, cache and router plugins handle it in priority order.       *)
(* Every await of a handler is a point where another request may run.      *)
(***************************************************************************)
EXTENDS Integers, Sequences, FiniteSets, TLC

\* ------------------------------------------------------------------ bounds
MaxTime == 3          \* the clock runs over 0..MaxTime (milliseconds)
MaxArrivals == 3      \* requests of one client in one behaviour
PipeArrivals == 2     \* requests in one behaviour of the whole pipeline
WindowMs == 2         \* config.rateLimit.windowMs, in clock steps
MaxRequests == 2      \* the largest config.rateLimit.maxRequests
TtlMs == 2            \* config.cache.ttlSeconds * 1000, in clock steps
MaxStores == 1        \* storeResponse calls in one behaviour
MaxCalls == 4         \* job tracker calls in one behaviour
MaxPicks == 4         \* selectTarget calls in one behaviour
MaxStarts == 2        \* start() calls in one behaviour

None == "none"
Procs == {"p1", "p2"}                 \* requests that may be in flight together
Time == 0..MaxTime
Runs == {"t1", "t2"}                  \* refreshWorkers calls that may be in progress
Callers == {"c1", "c2"}               \* job tracker calls that may be in progress

\* ------------------------------------------------------------------ inputs
\* A string is a sequence of chunks; the empty sequence is the empty or missing
\* (falsy) string. A credential is <<first eight characters, rest>>.
KeyA == <<"keyAAAAA", "1">>
KeyBad == <<"keyZZZZZ", "9">>
TokW == <<"wrkTOKEN", "w">>
TokB == <<"bearerTK", "b">>

\* A second API key and a second bearer token, alike in their first 8 characters
KeyA2 == <<"keyAAAAA", "2">>
TokB2 == <<"bearerTK", "c">>

ConfiguredApiKeys == {KeyA, KeyA2}    \* config.auth.apiKeys
TokenSalt == <<"distributed-gpu-inference-v1">>

NoHeaders == [apiKey |-> <<>>, workerToken |-> <<>>, authorization |-> <<>>]
HdrKey == [NoHeaders EXCEPT !.apiKey = KeyA]
HdrBadKey == [NoHeaders EXCEPT !.apiKey = KeyBad]
HdrWorker == [NoHeaders EXCEPT !.workerToken = TokW]
HdrBearer == [NoHeaders EXCEPT !.authorization = <<"Bearer ">> \o TokB]
HdrBasic == [NoHeaders EXCEPT !.authorization = <<"Basic ">> \o TokB]
HdrBadKeyBearer == [HdrBearer EXCEPT !.apiKey = KeyBad]

HdrKey2 == [NoHeaders EXCEPT !.apiKey = KeyA2]
HdrBearer2 == [NoHeaders EXCEPT !.authorization = <<"Bearer ">> \o TokB2]
\* Four clients: two with an API key each, two with a bearer token each
FourClients == {HdrKey, HdrKey2, HdrBearer, HdrBearer2}

AllHeaders == {NoHeaders, HdrKey, HdrBadKey, HdrWorker, HdrBearer, HdrBasic, HdrBadKeyBearer}
OneClient == {HdrKey}

ClientIp == <<"10.0.0.1">>
Methods == {"GET", "POST"}
QueryKeyOrder == <<"a", "b">>         \* the query keys used, in sort() order
\* req.originalUrl: the pathname and the query string after the '?'
ApiUrl == [pathname |-> "/api/v1/models", rawQuery |-> <<>>]
Urls == {ApiUrl}
\* The same endpoint and parameters, the parameters in either order, and a
\* second endpoint
UrlAB == [pathname |-> "/api/v1/models", rawQuery |-> <<"a", "=", "1", "&", "b", "=", "2">>]
UrlBA == [pathname |-> "/api/v1/models", rawQuery |-> <<"b", "=", "2", "&", "a", "=", "1">>]
UrlJobs == [pathname |-> "/api/v1/jobs", rawQuery |-> <<>>]
CacheUrls == {UrlAB, UrlBA, UrlJobs}
\* Query objects: the pairs <<key, value>> in the object's own key order
QueryObjects == {<<>>, <<<<"a", "1">>, <<"b", "2">>>>, <<<<"b", "2">>, <<"a", "1">>>>}
FastapiUrl == "http://localhost:8000"

\* An originalUrl of a gateway-local endpoint
GatewayUrl == [pathname |-> "/gateway/health", rawQuery |-> <<>>]

\* A path check that never matches
StartsWithGatewayNever(url) == FALSE

\* path.startsWith('/gateway/')
StartsWithGateway(url) == url.pathname \in {"/gateway/health", "/gateway/plugins"}

\* The elements of a sequence
Range(seq) == {seq[i] : i \in DOMAIN seq}

RECURSIVE ParseQuery(_)
\* express's req.query: the query string k=v&k=v parsed into an object whose
\* keys are in the order of the string
ParseQuery(rawQuery) ==
    IF Len(rawQuery) < 3 THEN <<>>
    ELSE <<<<rawQuery[1], rawQuery[3]>>>> \o ParseQuery(SubSeq(rawQuery, 5, Len(rawQuery)))

VARIABLES clock, store, memoryCounters, rrIndex, backends, config, rq, arrivals,
          admitted, memAdmitted, storedFor, storeCall, workers, refresh,
          jobs, jobCall, jobLog, picked, health, poll

vars == <<clock, store, memoryCounters, rrIndex, backends, config, rq, arrivals,
          admitted, memAdmitted, storedFor, storeCall, workers, refresh,
          jobs, jobCall, jobLog, picked, health, poll>>

\* The registry's poll timer
timerVars == <<poll>>

\* The cache plugin's calls (what was stored for which call, the last call's outcome)
cacheVars == <<storedFor, storeCall>>

\* The worker registry: its snapshot and the refreshWorkers call in progress
registryVars == <<workers, refresh>>

\* The job tracker: its cache, the calls in progress and the events published
trackerVars == <<jobs, jobCall, jobLog>>

\* The calls made through the plugins' APIs: what selectTarget returned, the
\* last health check's result
apiVars == <<picked, health>>

\* ------------------------------------------------------------------ auth plugin
\* A check that takes any X-API-Key for a configured one
AnyKeyValid(key) == TRUE

\* validateApiKey
ValidateApiKey(key) == key \in ConfiguredApiKeys

\* hashToken: hex(sha256(token + salt)), kept as a tagged copy of its input
HashToken(token) == <<"sha256">> \o token \o TokenSalt

NoAuth == [type |-> None, identity |-> <<>>]

\* The auth handler's credential checks: the context.auth it sets, or NoAuth
\* when no credential is accepted.
AuthDecision(h) ==
    IF h.apiKey /= <<>> /\ ValidateApiKey(h.apiKey)
      THEN [type |-> "api-key", identity |-> <<h.apiKey[1], "...">>]
    ELSE IF h.workerToken /= <<>>
      THEN [type |-> "token", identity |-> HashToken(h.workerToken) \o <<"[0:16]", "...">>]
    ELSE IF h.authorization /= <<>> /\ h.authorization[1] = "Bearer "
      THEN [type |-> "bearer",
            identity |-> SubSeq(Tail(h.authorization), 1, 1) \o <<"...">>]
    ELSE NoAuth

\* A handler that sends the 401 and leaves the event alone
AuthNeverCancels(decision) == FALSE

\* Whether the auth handler calls event.cancel() after sending the 401
AuthCancels(decision) == decision.type = None

\* ------------------------------------------------------------------ rate limiter
\* A filter that keeps the timestamp equal to windowStart
RetainedInclusive(ts, windowStart) == SelectSeq(ts, LAMBDA t : t >= windowStart)

\* timestamps.filter(ts => ts > windowStart)
Retained(ts, windowStart) == SelectSeq(ts, LAMBDA t : t > windowStart)

\* A limit test that lets one request too many through
LimitReachedLate(count, cfg) == count > cfg.maxRequests

\* currentCount >= this.config.maxRequests
LimitReached(count, cfg) == count >= cfg.maxRequests

\* checkRateLimit's result when it rejects: timestamps is the retained window
RejectResult(timestamps, cfg) ==
    [allowed |-> FALSE, remaining |-> 0, resetAt |-> timestamps[1] + cfg.windowMs]

\* checkRateLimit's result when it admits: timestamps is the window after push(now)
AdmitResult(timestamps, now, cfg) ==
    [allowed |-> TRUE, remaining |-> cfg.maxRequests - Len(timestamps),
     resetAt |-> now + cfg.windowMs]

\* checkMemoryRateLimit: the entry it leaves in memoryCounters
MemoryEntry(counters, clientKey, now, cfg) ==
    LET e == IF clientKey \notin DOMAIN counters
                  \/ now - counters[clientKey].windowStart > cfg.windowMs
               THEN [count |-> 0, windowStart |-> now]
               ELSE counters[clientKey]
    IN  [e EXCEPT !.count = @ + 1]

\* A fallback whose comparison lets one request too many through
MemoryResultLate(entry, cfg) ==
    IF entry.count > cfg.maxRequests + 1
      THEN [allowed |-> FALSE, remaining |-> 0, resetAt |-> entry.windowStart + cfg.windowMs]
      ELSE [allowed |-> TRUE, remaining |-> cfg.maxRequests - entry.count,
            resetAt |-> entry.windowStart + cfg.windowMs]

\* checkMemoryRateLimit: its result, from the entry after entry.count++
MemoryResult(entry, cfg) ==
    IF entry.count > cfg.maxRequests
      THEN [allowed |-> FALSE, remaining |-> 0, resetAt |-> entry.windowStart + cfg.windowMs]
      ELSE [allowed |-> TRUE, remaining |-> cfg.maxRequests - entry.count,
            resetAt |-> entry.windowStart + cfg.windowMs]

\* context.auth?.identity ?? ip
ClientKey(q) == IF q.auth.type /= None THEN q.auth.identity ELSE ClientIp

\* f with key k bound to v (Map.set, stateManager.set)
Put(f, k, v) == [x \in DOMAIN f \cup {k} |-> IF x = k THEN v ELSE f[x]]

\* A key outside the gateway's prefix
RateLimitKeyBare(clientKey) == <<"ratelimit:">> \o clientKey

\* `gateway:ratelimit:${clientKey}`
RateLimitKey(clientKey) == <<"gateway:ratelimit:">> \o clientKey

\* ------------------------------------------------------------------ cache plugin
RECURSIVE JoinPairs(_)
\* pairs.map(([k, v]) => `${k}=${v}`).join('&')
JoinPairs(pairs) ==
    IF pairs = <<>> THEN <<>>
    ELSE <<pairs[1][1], "=", pairs[1][2]>>
         \o (IF Len(pairs) > 1 THEN <<"&">> ELSE <<>>) \o JoinPairs(Tail(pairs))

\* Object.keys(query)
ObjectKeys(query) == [i \in DOMAIN query |-> query[i][1]]

\* query[k]
ValueOf(query, k) == query[CHOOSE i \in DOMAIN query : query[i][1] = k][2]

\* Keys left in the object's own order
KeysUnsorted(keys) == keys

\* keys.sort()
SortKeys(keys) == SelectSeq(QueryKeyOrder, LAMBDA k : k \in Range(keys))

\* Object.keys(query).sort().map(k => `${k}=${query[k]}`).join('&')
SortedQuery(query) ==
    LET keys == SortKeys(ObjectKeys(query))
    IN  JoinPairs([i \in DOMAIN keys |-> <<keys[i], ValueOf(query, keys[i])>>])

\* the request's originalUrl as a string
UrlString(url) ==
    <<url.pathname>> \o (IF url.rawQuery = <<>> THEN <<>> ELSE <<"?">> \o url.rawQuery)

\* `${method}:${path}?${sortedQuery}`
RawKey(method, path, query) ==
    <<method, ":">> \o UrlString(path) \o <<"?">> \o SortedQuery(query)

\* computeCacheKey: 'gateway:cache:' + md5(`${method}:${path}?${sortedQuery}`)
ComputeCacheKey(method, path, query) ==
    <<"gateway:cache:", "md5">> \o RawKey(method, path, query)

\* An expiry test that still serves the entry at now - cachedAt = ttl
IsNotExpiredInclusive(cached, now, cfg) == now - cached.cachedAt <= cfg.ttlMs

\* An expiry test that serves whatever is in the store
IsNotExpiredEver(cached, now, cfg) == TRUE

\* isNotExpired
IsNotExpired(cached, now, cfg) == now - cached.cachedAt < cfg.ttlMs

\* ------------------------------------------------------------------ router plugin
\* A rotation that advances the counter before it uses it
SelectRoundRobinPreIncrement(bs, rr) ==
    [target |-> bs[((rr + 1) % Len(bs)) + 1], rrIndex |-> rr + 1]

\* selectRoundRobin: the target and the counter it leaves
SelectRoundRobin(bs, rr) == [target |-> bs[(rr % Len(bs)) + 1], rrIndex |-> rr + 1]

\* selectByRegion: null in every case
SelectByRegion(bs, clientRegion) == None

\* A selection without the case of the single backend
SelectTargetNoSingleCase(bs, strategy, rr, clientRegion) ==
    IF strategy \in {"round-robin", "least-connections", "region-affinity"}
      THEN SelectRoundRobin(bs, rr)
      ELSE [target |-> bs[1], rrIndex |-> rr]

\* selectTarget
SelectTarget(bs, strategy, rr, clientRegion) ==
    IF Len(bs) = 1 THEN [target |-> bs[1], rrIndex |-> rr]
    ELSE IF strategy = "round-robin" THEN SelectRoundRobin(bs, rr)
    ELSE IF strategy = "least-connections" THEN SelectRoundRobin(bs, rr)
    ELSE IF strategy = "region-affinity"
      THEN IF SelectByRegion(bs, clientRegion) /= None
             THEN [target |-> SelectByRegion(bs, clientRegion), rrIndex |-> rr]
             ELSE SelectRoundRobin(bs, rr)
    ELSE [target |-> bs[1], rrIndex |-> rr]

\* ------------------------------------------------------------------ event dispatch
AuthPriority == 100
RateLimitPriority == 90
CachePriority == 80
RouterPriority == 70

\* Subscriptions in which the rate limiter outranks auth
SubscriptionsRateLimitFirst(cfg) ==
    (IF cfg.authEnabled THEN {[handler |-> "auth", priority |-> AuthPriority]} ELSE {})
    \cup (IF cfg.rateLimitEnabled
            THEN {[handler |-> "ratelimit", priority |-> AuthPriority + 10]} ELSE {})
    \cup (IF cfg.cacheEnabled THEN {[handler |-> "cache", priority |-> CachePriority]} ELSE {})
    \cup {[handler |-> "router", priority |-> RouterPriority]}

\* The handlers subscribed to gateway:request:incoming by the plugins' install()
Subscriptions(cfg) ==
    (IF cfg.authEnabled THEN {[handler |-> "auth", priority |-> AuthPriority]} ELSE {})
    \cup (IF cfg.rateLimitEnabled
            THEN {[handler |-> "ratelimit", priority |-> RateLimitPriority]} ELSE {})
    \cup (IF cfg.cacheEnabled THEN {[handler |-> "cache", priority |-> CachePriority]} ELSE {})
    \cup {[handler |-> "router", priority |-> RouterPriority]}

RECURSIVE DispatchOrder(_)
\* Higher priority handlers execute first
DispatchOrder(subs) ==
    IF subs = {} THEN <<>>
    ELSE LET first == CHOOSE s \in subs : \A t \in subs : t.priority <= s.priority
         IN  <<first.handler>> \o DispatchOrder(subs \ {first})

\* The handler the dispatcher invokes next for request q: none once the event
\* is cancelled or every handler has run.
NextHandler(q, cfg) ==
    LET order == DispatchOrder(Subscriptions(cfg))
    IN  IF q.cancelled \/ q.hidx > Len(order) THEN None ELSE order[q.hidx]

\* A middleware that calls next() whatever the handlers decided
ForwardAlways(cancelled) == TRUE

\* if (requestEvent.isCancelled) return; ... next()
Forward(cancelled) == ~cancelled

\* ------------------------------------------------------------------ state
NoInfo == [set |-> FALSE, remaining |-> 0, limit |-> 0, resetAt |-> 0]

\* No CachedResponse
NoEntry == [statusCode |-> 0, headers |-> {}, body |-> None, cachedAt |-> 0]

\* No storeResponse call yet
NoCall == [calls |-> 0, method |-> None, statusCode |-> 0, threw |-> FALSE,
           returned |-> FALSE, events |-> {}]

\* refreshWorkers is not running
NoRefresh == [pc |-> "idle"]

\* No job tracker call of this caller yet
NoJobCall == [pc |-> "idle"]

\* No health check yet
NoHealth == [status |-> None, redis |-> None]

\* pollInterval = null; the timers that are set are numbered from 1
NoTimer == 0

\* pollInterval = null: no timer set, no start() call made nor in progress.
\* pollInterval is the timer start() stored last, live the timers that were
\* set and not cleared, armed the number of setInterval calls, starting the
\* start() calls awaiting their first refreshWorkers, started the number of
\* start() calls, stopped whether stop() returned with no start() call
\* in progress or made since
NoPoll == [pollInterval |-> NoTimer, live |-> {}, armed |-> 0, starting |-> {},
           started |-> 0, stopped |-> FALSE]

Fresh ==
    [pc |-> "idle", headers |-> NoHeaders, method |-> "GET", url |-> ApiUrl,
     hidx |-> 1, cancelled |-> FALSE,
     auth |-> NoAuth, rateLimitInfo |-> NoInfo, cached |-> FALSE, targetUrl |-> None,
     now |-> 0, write |-> <<>>,
     status |-> 0, cacheHeader |-> None, proxied |-> FALSE,
     cachedResponse |-> NoEntry, resHeaders |-> {}, resBody |-> None,
     events |-> {}, ran |-> <<>>, touched |-> {}, rlMode |-> None, rlAllowed |-> FALSE]

\* loadConfig(): the plugins' settings
Configs(limits) ==
    [authEnabled : BOOLEAN, rateLimitEnabled : BOOLEAN, cacheEnabled : BOOLEAN,
     strategy : {"round-robin"}, windowMs : {WindowMs}, maxRequests : limits,
     ttlMs : {TtlMs}]
AllOn(limits) ==
    {c \in Configs(limits) : c.authEnabled /\ c.rateLimitEnabled /\ c.cacheEnabled}

\* The gateway after construction, with one of the configurations cfgs and one
\* of the backend lists
InitOf(cfgs, lists) ==
    /\ clock = 0
    /\ store = << >>
    /\ memoryCounters = << >>
    /\ rrIndex = 0
    /\ backends \in lists
    /\ config \in cfgs
    /\ rq = [r \in Procs |-> Fresh]
    /\ arrivals = 0
    /\ admitted = << >>
    /\ memAdmitted = << >>
    /\ storedFor = << >>
    /\ storeCall = NoCall
    /\ workers = << >>
    /\ refresh = [t \in Runs |-> NoRefresh]
    /\ jobs = << >>
    /\ jobCall = [c \in Callers |-> NoJobCall]
    /\ jobLog = [calls |-> 0, events |-> << >>]
    /\ picked = <<>>
    /\ health = NoHealth
    /\ poll = NoPoll

\* this.backends = [fastapiConfig.url]
InitWith(cfgs) == InitOf(cfgs, {<<FastapiUrl>>})

Has(k) == k \in DOMAIN store

\* Date.now() moves on
Tick ==
    /\ clock < MaxTime
    /\ clock' = clock + 1
    /\ UNCHANGED <<store, memoryCounters, rrIndex, backends, config, rq, arrivals,
                   admitted, memAdmitted,
                   cacheVars, registryVars,
                   trackerVars, apiVars,
                   timerVars>>

\* A request enters app.use('/api/v1', ...): the incoming event is created and
\* published.
Arrive(r, h, m, u) ==
    /\ rq[r].pc \in {"idle", "done"}
    /\ arrivals < MaxArrivals
    /\ arrivals' = arrivals + 1
    /\ rq' = [rq EXCEPT ![r] = [Fresh EXCEPT !.pc = "dispatch", !.headers = h,
                                             !.method = m, !.url = u]]
    /\ UNCHANGED <<clock, store, memoryCounters, rrIndex, backends, config,
                   admitted, memAdmitted,
                   cacheVars, registryVars,
                   trackerVars, apiVars,
                   timerVars>>

\* The record of q after the handler named h returned
Returned(q, h) == [q EXCEPT !.pc = "dispatch", !.hidx = @ + 1, !.ran = Append(@, h)]

\* AuthPlugin's handler
AuthHandler(r) ==
    LET q == rq[r]
        d == AuthDecision(q.headers)
    IN  /\ q.pc = "dispatch"
        /\ NextHandler(q, config) = "auth"
        /\ rq' = [rq EXCEPT ![r] =
              IF StartsWithGateway(q.url) THEN Returned(q, "auth")
              ELSE IF d.type /= None
                THEN [Returned(q, "auth") EXCEPT !.auth = d,
                                                 !.events = @ \cup {"gateway:auth:validated"}]
                ELSE [Returned(q, "auth") EXCEPT !.events = @ \cup {"gateway:auth:rejected"},
                                                 !.status = 401,
                                                 !.cancelled = AuthCancels(d)]]
        /\ UNCHANGED <<clock, store, memoryCounters, rrIndex, backends, config, arrivals,
                       admitted, memAdmitted,
                   cacheVars, registryVars,
                   trackerVars, apiVars,
                   timerVars>>

\* context.rateLimitInfo = {remaining, limit, resetAt}
Info(result, cfg) ==
    [set |-> TRUE, remaining |-> result.remaining, limit |-> cfg.maxRequests,
     resetAt |-> result.resetAt]

\* One more admission of clientKey recorded under `at` (history of admissions)
Count(hist, clientKey, at) ==
    IF clientKey \in DOMAIN hist /\ at \in DOMAIN hist[clientKey] THEN hist[clientKey][at] ELSE 0

Recorded(hist, clientKey, at) ==
    Put(hist, clientKey,
        Put(IF clientKey \in DOMAIN hist THEN hist[clientKey] ELSE << >>,
            at, Count(hist, clientKey, at) + 1))

\* RateLimitPlugin's handler up to the store read: the path check, the client
\* key, and checkRateLimit's Date.now()
RateLimitBegin(r) ==
    LET q == rq[r]
    IN  /\ q.pc = "dispatch"
        /\ NextHandler(q, config) = "ratelimit"
        /\ rq' = [rq EXCEPT ![r] =
              IF StartsWithGateway(q.url) THEN Returned(q, "ratelimit")
              ELSE [q EXCEPT !.pc = "rl_get", !.now = clock, !.ran = Append(@, "ratelimit")]]
        /\ UNCHANGED <<clock, store, memoryCounters, rrIndex, backends, config, arrivals,
                       admitted, memAdmitted,
                   cacheVars, registryVars,
                   trackerVars, apiVars,
                   timerVars>>

\* The handler's catch branch: checkMemoryRateLimit decides the request
Fallback(r) ==
    LET q == rq[r]
        k == ClientKey(q)
        entry == MemoryEntry(memoryCounters, k, clock, config)
        result == MemoryResult(entry, config)
        q1 == [q EXCEPT !.pc = "dispatch", !.hidx = @ + 1,
                        !.rateLimitInfo = Info(result, config),
                        !.rlMode = "memory", !.rlAllowed = result.allowed,
                        !.touched = @ \cup {"memory"}]
    IN  /\ memoryCounters' = Put(memoryCounters, k, entry)
        /\ rq' = [rq EXCEPT ![r] =
              IF result.allowed THEN q1
              ELSE [q1 EXCEPT !.status = 429, !.cancelled = TRUE]]
        /\ memAdmitted' = IF result.allowed THEN Recorded(memAdmitted, k, entry.windowStart)
                          ELSE memAdmitted
        /\ UNCHANGED <<clock, store, rrIndex, backends, config, arrivals, admitted,
                       cacheVars, registryVars, trackerVars, apiVars,
                   timerVars>>

\* stateManager.get(key) settles: the window is filtered and the request is
\* rejected, or the new window is handed to stateManager.set
RateLimitGet(r, ok) ==
    LET q == rq[r]
        key == RateLimitKey(ClientKey(q))
        timestamps == Retained(IF key \in DOMAIN store THEN store[key] ELSE <<>>,
                               q.now - config.windowMs)
        result == RejectResult(timestamps, config)
    IN  /\ q.pc = "rl_get"
        /\ IF ~ok THEN Fallback(r)
           ELSE /\ rq' = [rq EXCEPT ![r] =
                     IF LimitReached(Len(timestamps), config)
                       THEN [q EXCEPT !.pc = "dispatch", !.hidx = @ + 1,
                                      !.rateLimitInfo = Info(result, config),
                                      !.rlMode = "store", !.rlAllowed = FALSE,
                                      !.events = @ \cup {"gateway:ratelimit:exceeded"},
                                      !.status = 429, !.cancelled = TRUE]
                       ELSE [q EXCEPT !.pc = "rl_set", !.write = Append(timestamps, q.now)]]
                /\ UNCHANGED <<clock, store, memoryCounters, rrIndex, backends, config,
                               arrivals, admitted, memAdmitted,
                   cacheVars, registryVars,
                   trackerVars, apiVars,
                   timerVars>>

\* stateManager.set(key, timestamps) settles: the request is admitted
RateLimitSet(r, ok) ==
    LET q == rq[r]
        k == ClientKey(q)
        result == AdmitResult(q.write, q.now, config)
    IN  /\ q.pc = "rl_set"
        /\ IF ~ok THEN Fallback(r)
           ELSE /\ store' = Put(store, RateLimitKey(k), q.write)
                /\ rq' = [rq EXCEPT ![r] =
                     [q EXCEPT !.pc = "dispatch", !.hidx = @ + 1,
                               !.rateLimitInfo = Info(result, config),
                               !.rlMode = "store", !.rlAllowed = TRUE,
                               !.events = @ \cup {"gateway:ratelimit:allowed"},
                               !.touched = @ \cup {"ratelimit"}]]
                /\ admitted' = Recorded(admitted, k, q.now)
                /\ UNCHANGED <<clock, memoryCounters, rrIndex, backends, config, arrivals,
                               memAdmitted,
                   cacheVars, registryVars,
                   trackerVars, apiVars,
                   timerVars>>

\* A hit that serves the entry and leaves the event alone
CacheHitNoCancel(q, cached) ==
    [q EXCEPT !.cached = TRUE,
              !.cachedResponse = cached,
              !.events = @ \cup {"gateway:cache:hit"},
              !.cacheHeader = "HIT",
              !.status = cached.statusCode,
              !.resHeaders = cached.headers \ {"transfer-encoding"},
              !.resBody = cached.body]

\* The incoming handler on a hit: context.cached, gateway:cache:hit, the
\* cached status, headers (but transfer-encoding) and body, event.cancel()
CacheHit(q, cached) ==
    [q EXCEPT !.cached = TRUE,
              !.cachedResponse = cached,
              !.events = @ \cup {"gateway:cache:hit"},
              !.cacheHeader = "HIT",
              !.status = cached.statusCode,
              !.resHeaders = cached.headers \ {"transfer-encoding"},
              !.resBody = cached.body,
              !.cancelled = TRUE]

\* The incoming handler on a miss
CacheMiss(q) ==
    [q EXCEPT !.cacheHeader = "MISS", !.events = @ \cup {"gateway:cache:miss"}]

\* A catch that answers 500 and cancels the event
CacheReadErrorFails(q) ==
    [q EXCEPT !.cacheHeader = "ERROR", !.status = 500, !.cancelled = TRUE]

\* The incoming handler's catch: the store read threw
CacheReadError(q) == [q EXCEPT !.cacheHeader = "ERROR"]

\* CachePlugin's incoming handler
CacheHandler(r, ok) ==
    LET q == rq[r]
        key == ComputeCacheKey(q.method, q.url, ParseQuery(q.url.rawQuery))
        q1 == Returned(q, "cache")
    IN  /\ q.pc = "dispatch"
        /\ NextHandler(q, config) = "cache"
        /\ rq' = [rq EXCEPT ![r] =
              IF q.method /= "GET" \/ StartsWithGateway(q.url) THEN q1
              ELSE IF ~ok THEN CacheReadError(q1)
              ELSE IF Has(key) /\ IsNotExpired(store[key], clock, config)
                THEN CacheHit(q1, store[key])
                ELSE CacheMiss(q1)]
        /\ UNCHANGED <<clock, store, memoryCounters, rrIndex, backends, config, arrivals,
                       admitted, memAdmitted,
                       cacheVars, registryVars,
                   trackerVars, apiVars,
                   timerVars>>

\* storeResponse's stateManager.set: {...response, cachedAt: Date.now()}
Entry(response, now) ==
    [statusCode |-> response.statusCode, headers |-> response.headers,
     body |-> response.body, cachedAt |-> now]

\* Whether storeResponse returns before computing the key
StoreSkipped(method, response, cfg) == ~cfg.cacheEnabled \/ method /= "GET"

\* CachePlugin.storeResponse; storeCall keeps the call's method and status and
\* what it did, storedFor the call each entry was written by
StoreResponse(method, path, query, response, ok) ==
    LET cacheKey == ComputeCacheKey(method, path, query)
        call == [calls |-> storeCall.calls + 1, method |-> method,
                 statusCode |-> response.statusCode,
                 threw |-> FALSE, returned |-> TRUE, events |-> {}]
    IN  /\ IF StoreSkipped(method, response, config)
             THEN /\ storeCall' = call
                  /\ UNCHANGED <<store, storedFor>>
           ELSE IF ok
             THEN /\ store' = Put(store, cacheKey, Entry(response, clock))
                  /\ storedFor' = Put(storedFor, cacheKey,
                                      [method |-> method, path |-> path, query |-> query])
                  /\ storeCall' = [call EXCEPT !.events = {"gateway:cache:stored"}]
             ELSE /\ storeCall' = [call EXCEPT !.threw = TRUE]
                  /\ UNCHANGED <<store, storedFor>>
        /\ UNCHANGED <<clock, memoryCounters, rrIndex, backends, config, rq, arrivals,
                       admitted, memAdmitted, registryVars,
                   trackerVars, apiVars,
                   timerVars>>

\* RouterPlugin's handler
RouterHandler(r) ==
    LET q == rq[r]
        sel == SelectTarget(backends, config.strategy, rrIndex, None)
    IN  /\ q.pc = "dispatch"
        /\ NextHandler(q, config) = "router"
        /\ IF StartsWithGateway(q.url)
             THEN /\ rq' = [rq EXCEPT ![r] = Returned(q, "router")]
                  /\ UNCHANGED rrIndex
             ELSE /\ rq' = [rq EXCEPT ![r] =
                       [Returned(q, "router") EXCEPT
                            !.targetUrl = sel.target,
                            !.events = @ \cup {"gateway:router:selected"},
                            !.touched = @ \cup (IF sel.rrIndex /= rrIndex THEN {"router"} ELSE {})]]
                  /\ rrIndex' = sel.rrIndex
        /\ UNCHANGED <<clock, store, memoryCounters, backends, config, arrivals,
                       admitted, memAdmitted,
                   cacheVars, registryVars,
                   trackerVars, apiVars,
                   timerVars>>

\* The events of a request's end, kept with the request once it is done
LifecycleEvents == {"gateway:request:completed"}

\* publish() returned to the /api/v1 middleware: it returns when the event is
\* cancelled and calls next(), the proxy middleware, otherwise
Orchestrate(r) ==
    LET q == rq[r]
    IN  /\ q.pc = "dispatch"
        /\ NextHandler(q, config) = None
        /\ rq' = [rq EXCEPT ![r] =
              [Fresh EXCEPT !.pc = "done", !.cancelled = q.cancelled, !.status = q.status,
                            !.events = q.events \cap LifecycleEvents,
                            !.proxied = Forward(q.cancelled)]]
        /\ UNCHANGED <<clock, store, memoryCounters, rrIndex, backends, config, arrivals,
                       admitted, memAdmitted,
                   cacheVars, registryVars,
                   trackerVars, apiVars,
                   timerVars>>

\* ------------------------------------------------------------------ worker registry
WorkerIds == {"A", "B"}
WorkerStates == {"idle", "busy"}

\* The index values the workers may write: lists of distinct ids
Indexes == {<<>>, <<"A">>, <<"B">>, <<"A", "B">>, <<"B", "A">>}

\* The status records the workers may write
StatusRecords == [workerId : WorkerIds, region : {"us-east"}, status : WorkerStates]

\* 'worker:index'
WorkerIndexKey == <<"worker:index">>

\* `worker:${workerId}:status`
StatusKey(workerId) == <<"worker:", workerId, ":status">>

\* f without key k (Map.delete, a deleted store key)
Drop(f, k) == [x \in DOMAIN f \ {k} |-> f[x]]

\* A worker process writes the index of known worker ids
RemoteIndex(index) ==
    /\ store' = Put(store, WorkerIndexKey, index)
    /\ UNCHANGED <<clock, memoryCounters, rrIndex, backends, config, rq, arrivals,
                   admitted, memAdmitted, cacheVars, registryVars,
                   trackerVars, apiVars,
                   timerVars>>

\* The index key goes away (it expires, or its writer deletes it): the next
\* read of it yields null
RemoteIndexGone ==
    /\ WorkerIndexKey \in DOMAIN store
    /\ store' = Drop(store, WorkerIndexKey)
    /\ UNCHANGED <<clock, memoryCounters, rrIndex, backends, config, rq, arrivals,
                   admitted, memAdmitted, cacheVars, registryVars,
                   trackerVars, apiVars,
                   timerVars>>

\* A worker process writes its status record, or the record goes away
RemoteStatus(workerId, record, present) ==
    /\ record.workerId = workerId
    /\ store' = IF present THEN Put(store, StatusKey(workerId), record)
                ELSE Drop(store, StatusKey(workerId))
    /\ UNCHANGED <<clock, memoryCounters, rrIndex, backends, config, rq, arrivals,
                   admitted, memAdmitted, cacheVars, registryVars,
                   trackerVars, apiVars,
                   timerVars>>

\* The events a call has published, each <<name, workerId, status>>
Published(name, workerId, status) == <<name, workerId, status>>

\* What the call before this one read as the index: <<ids>>, or <<>> when
\* there was no call before or its index read threw
PriorRead(run) ==
    IF run.pc = "done" /\ run.indexRead THEN <<run.ids>> ELSE <<>>

\* The record of a refreshWorkers call that has just been made
RefreshBegun(t) ==
    [pc |-> "index", ids |-> <<>>, i |-> 1, previousIds |-> {}, currentIds |-> {},
     before |-> workers, fetched |-> << >>, events |-> <<>>,
     indexRead |-> FALSE, threw |-> FALSE, prior |-> PriorRead(refresh[t])]

\* refreshWorkers is called (start(), or the poll timer fires): it awaits
\* discoverWorkerIds(). The finished call's record is replaced.
RefreshStart(t) ==
    /\ refresh[t].pc \in {"idle", "done"}
    /\ refresh' = [refresh EXCEPT ![t] = RefreshBegun(t)]
    /\ UNCHANGED <<clock, store, memoryCounters, rrIndex, backends, config, rq, arrivals,
                   admitted, memAdmitted, cacheVars, workers,
                   trackerVars, apiVars,
                   timerVars>>

\* discoverWorkerIds: index ?? []
DiscoverWorkerIds(st) == IF WorkerIndexKey \in DOMAIN st THEN st[WorkerIndexKey] ELSE <<>>

\* A catch that reports every worker of the snapshot offline
RefreshFailedAsEmpty(run) ==
    [run EXCEPT !.pc = "done", !.threw = TRUE,
                !.events = @ \o [i \in 1..Cardinality(DOMAIN run.before) |->
                                   <<"gateway:worker:offline", "?", "offline">>]]

\* The catch of refreshWorkers: the call ends, the snapshot is kept as it is
RefreshFailed(run) == [run EXCEPT !.pc = "done", !.threw = TRUE]

\* stateManager.get('worker:index') settles: previousIds and currentIds are
\* set up, or the read threw and the call ends in its catch
IndexRead(t, ok) ==
    LET run == refresh[t]
    IN  /\ run.pc = "index"
        /\ refresh' = [refresh EXCEPT ![t] =
              IF ~ok THEN RefreshFailed(run)
              ELSE [run EXCEPT !.pc = "loop", !.ids = DiscoverWorkerIds(store),
                               !.indexRead = TRUE,
                               !.previousIds = DOMAIN workers, !.i = 1]]
        /\ UNCHANGED <<clock, store, memoryCounters, rrIndex, backends, config, rq,
                       arrivals, admitted, memAdmitted, cacheVars, workers,
                   trackerVars, apiVars,
                   timerVars>>

\* A loop that reports every record of a known worker as updated
ChangeEventsEveryPass(snapshot, workerId, statusData) ==
    IF workerId \notin DOMAIN snapshot
      THEN <<Published("gateway:worker:online", workerId, statusData.status)>>
      ELSE <<Published("gateway:worker:updated", workerId, statusData.status)>>

\* The event the loop publishes for a fetched record, if any
ChangeEvents(snapshot, workerId, statusData) ==
    IF workerId \notin DOMAIN snapshot
      THEN <<Published("gateway:worker:online", workerId, statusData.status)>>
    ELSE IF snapshot[workerId].status /= statusData.status
      THEN <<Published("gateway:worker:updated", workerId, statusData.status)>>
    ELSE <<>>

\* A pass that counts a worker as current only once its record is found
LoopPassFoundOnly(run, workerId) ==
    [run EXCEPT !.i = @ + 1,
                !.currentIds = IF StatusKey(workerId) \in DOMAIN store
                                 THEN @ \cup {workerId} ELSE @]

\* A pass of the loop is over: currentIds.add(workerId) was done before the
\* read, and the loop moves on (`continue`, or the end of the body)
LoopPass(run, workerId) == [run EXCEPT !.i = @ + 1, !.currentIds = @ \cup {workerId}]

\* One pass of the for loop over knownWorkerIds:
\* stateManager.get(`worker:${workerId}:status`) settles
StatusRead(t, ok) ==
    LET run == refresh[t]
        workerId == run.ids[run.i]
        key == StatusKey(workerId)
        next == LoopPass(run, workerId)
    IN  /\ run.pc = "loop"
        /\ run.i <= Len(run.ids)
        /\ IF ~ok
             THEN /\ refresh' = [refresh EXCEPT ![t] =
                        RefreshFailed([run EXCEPT !.currentIds = @ \cup {workerId}])]
                  /\ UNCHANGED workers
           ELSE IF key \notin DOMAIN store
             THEN /\ refresh' = [refresh EXCEPT ![t] = next]
                  /\ UNCHANGED workers
             ELSE /\ workers' = Put(workers, workerId, store[key])
                  /\ refresh' = [refresh EXCEPT ![t] =
                        [next EXCEPT !.fetched = Put(@, workerId, store[key]),
                                     !.events = @ \o ChangeEvents(workers, workerId,
                                                                  store[key])]]
        /\ UNCHANGED <<clock, store, memoryCounters, rrIndex, backends, config, rq,
                       arrivals, admitted, memAdmitted, cacheVars,
                   trackerVars, apiVars,
                   timerVars>>

\* The ids the second loop removes
Departed(previousIds, currentIds) == previousIds \ currentIds

RECURSIVE OfflineEvents(_)
\* One gateway:worker:offline per removed id
OfflineEvents(ids) ==
    IF ids = {} THEN <<>>
    ELSE LET id == CHOOSE x \in ids : TRUE
         IN  <<Published("gateway:worker:offline", id, "offline")>>
                 \o OfflineEvents(ids \ {id})

\* The for loop over previousIds: the ids no longer in the index are deleted
\* from the snapshot and reported offline; the call ends
RemoveDeparted(t) ==
    LET run == refresh[t]
    IN  /\ run.pc = "loop"
        /\ run.i > Len(run.ids)
        /\ workers' = [id \in DOMAIN workers \ Departed(run.previousIds, run.currentIds)
                          |-> workers[id]]
        /\ refresh' = [refresh EXCEPT ![t] =
              [run EXCEPT !.pc = "done",
                          !.events = @ \o OfflineEvents(
                                            Departed(run.previousIds, run.currentIds))]]
        /\ UNCHANGED <<clock, store, memoryCounters, rrIndex, backends, config, rq,
                       arrivals, admitted, memAdmitted, cacheVars,
                   trackerVars, apiVars,
                   timerVars>>

\* start() is called: it awaits refreshWorkers()
Start(t) ==
    /\ refresh[t].pc \in {"idle", "done"}
    /\ t \notin poll.starting
    /\ poll.started < MaxStarts
    /\ refresh' = [refresh EXCEPT ![t] = RefreshBegun(t)]
    /\ poll' = [poll EXCEPT !.starting = @ \cup {t}, !.started = @ + 1,
                            !.stopped = FALSE]
    /\ UNCHANGED <<clock, store, memoryCounters, rrIndex, backends, config, rq, arrivals,
                   admitted, memAdmitted, cacheVars, workers, trackerVars, apiVars>>

\* start() goes on after its refreshWorkers call: this.pollInterval =
\* setInterval(...), whatever pollInterval held
StartArmed(t) ==
    /\ t \in poll.starting
    /\ refresh[t].pc = "done"
    /\ poll' = [poll EXCEPT !.starting = @ \ {t}, !.armed = @ + 1,
                            !.pollInterval = poll.armed + 1,
                            !.live = @ \cup {poll.armed + 1}]
    /\ UNCHANGED <<clock, store, memoryCounters, rrIndex, backends, config, rq, arrivals,
                   admitted, memAdmitted, cacheVars, registryVars, trackerVars, apiVars>>

\* if (this.pollInterval) { clearInterval(this.pollInterval); this.pollInterval = null }
Stopped(p) ==
    IF p.pollInterval /= NoTimer
      THEN [p EXCEPT !.pollInterval = NoTimer, !.live = @ \ {p.pollInterval}]
      ELSE p

\* stop() is called and returns
Stop ==
    /\ poll' = [Stopped(poll) EXCEPT !.stopped = (poll.starting = {})]
    /\ UNCHANGED <<clock, store, memoryCounters, rrIndex, backends, config, rq, arrivals,
                   admitted, memAdmitted, cacheVars, registryVars, trackerVars, apiVars>>

\* A timer that is set fires: its callback calls refreshWorkers
TimerFires(t) == poll.live /= {} /\ t \notin poll.starting /\ RefreshStart(t)

\* getWorkerList(filters): the snapshot's records that pass the filters
GetWorkerList(snapshot, region, status) ==
    LET ws == {snapshot[id] : id \in DOMAIN snapshot}
        byRegion == IF region = None THEN ws ELSE {w \in ws : w.region = region}
        list == IF status = None THEN byRegion ELSE {w \in byRegion : w.status = status}
    IN  [workers |-> list, total |-> Cardinality(list),
         online |-> Cardinality({w \in list : w.status /= "offline"}),
         busy |-> Cardinality({w \in list : w.status = "busy"}),
         idle |-> Cardinality({w \in list : w.status = "idle"})]

\* getWorker(workerId): <<the record>>, or <<>> for undefined
GetWorker(snapshot, workerId) ==
    IF workerId \in DOMAIN snapshot THEN <<snapshot[workerId]>> ELSE <<>>

\* ------------------------------------------------------------------ plugin APIs
\* RouterStrategy, and a value that is none of its members
Strategies == {"round-robin", "least-connections", "region-affinity", "unknown"}

\* The region hints of selectTarget(region?): none, or a region
Regions == {None, "us-east"}

\* this.backends: the single FastAPI URL, or the URLs of a multi-instance setup
BackendLists == {<<FastapiUrl>>, <<"X", "Y">>, <<"X", "Y", "Z">>}

\* REGION_DISTANCES: the regions of the table, in the order of its rows
KnownRegions == <<"us-west", "us-east", "eu-west", "eu-central", "ap-east">>

\* REGION_DISTANCES: the relative latency from the row's region to the column's
RegionDistances ==
    << <<0, 40, 80, 90, 100>>,
       <<40, 0, 60, 70, 120>>,
       <<80, 60, 0, 10, 90>>,
       <<90, 70, 10, 0, 80>>,
       <<100, 120, 90, 80, 0>> >>

DefaultDistance == 999

\* The row or column of a region in the table
RegionIndex(region) == CHOOSE i \in DOMAIN KnownRegions : KnownRegions[i] = region

\* RegionResolver.getDistance
GetDistance(fromRegion, toRegion) ==
    IF fromRegion \in Range(KnownRegions) /\ toRegion \in Range(KnownRegions)
      THEN RegionDistances[RegionIndex(fromRegion)][RegionIndex(toRegion)]
      ELSE DefaultDistance

\* loadConfig(): the settings with each routing strategy
RouterConfigs ==
    [authEnabled : {TRUE}, rateLimitEnabled : {TRUE}, cacheEnabled : {TRUE},
     strategy : Strategies, windowMs : {WindowMs}, maxRequests : {MaxRequests},
     ttlMs : {TtlMs}]

\* getAPI().selectTarget(region)
SelectTargetCall(region) ==
    LET sel == SelectTarget(backends, config.strategy, rrIndex, region)
    IN  /\ Len(picked) < MaxPicks
        /\ rrIndex' = sel.rrIndex
        /\ picked' = Append(picked, [target |-> sel.target, region |-> region,
                                     rrIndex |-> rrIndex])
        /\ UNCHANGED <<clock, store, memoryCounters, backends, config, rq, arrivals,
                       admitted, memAdmitted, cacheVars, registryVars, trackerVars,
                       health,
                   timerVars>>

\* 'gateway:health:ping'
HealthKey == <<"gateway:health:ping">>

\* The outcomes of the fetch of the backend's /docs
FastapiChecks == {"healthy", "degraded", "unhealthy"}

\* getHealth(): the store is read; the status tells whether the read threw
GetHealth(ok) ==
    /\ health' = [status |-> IF ok THEN "healthy" ELSE "unhealthy", redis |-> None]
    /\ UNCHANGED <<clock, store, memoryCounters, rrIndex, backends, config, rq, arrivals,
                   admitted, memAdmitted, cacheVars, registryVars, trackerVars, picked,
                   timerVars>>

\* getDetailedHealth(): getHealth, then the ping key is written and read
\* back, the backend and the plugins are checked, and the overall status is
\* determined
GetDetailedHealth(okBase, okSet, okGet, fastapi, errorCount) ==
    LET redis == IF okSet /\ okGet THEN "healthy" ELSE "unhealthy"
        status == IF redis = "unhealthy" THEN "unhealthy"
                  ELSE IF fastapi = "unhealthy" THEN "degraded"
                  ELSE IF errorCount > 0 THEN "degraded"
                  ELSE "healthy"
    IN  /\ store' = IF okSet THEN Put(store, HealthKey, clock) ELSE store
        /\ health' = [status |-> status, redis |-> redis]
        /\ UNCHANGED <<clock, memoryCounters, rrIndex, backends, config, rq, arrivals,
                       admitted, memAdmitted, cacheVars, registryVars, trackerVars,
                       picked,
                   timerVars>>

\* ------------------------------------------------------------------ job tracker
JobIds == {"j1"}
JobStates == {"queued", "processing", "completed", "failed", "cancelled"}

\* The job records the queue's writer may store
JobRecords == [job_id : JobIds, status : JobStates]

\* `queue:job:${jobId}`
JobKey(jobId) == <<"queue:job:", jobId>>

\* The queue's writer stores a job's record
RemoteJob(jobId, record) ==
    /\ record.job_id = jobId
    /\ store' = Put(store, JobKey(jobId), record)
    /\ UNCHANGED <<clock, memoryCounters, rrIndex, backends, config, rq, arrivals,
                   admitted, memAdmitted, cacheVars, registryVars,
                   trackerVars, apiVars,
                   timerVars>>

\* The order in which the queue moves a job: queued, processing, then one of
\* the final states
Stage(status) ==
    IF status = "queued" THEN 1 ELSE IF status = "processing" THEN 2 ELSE 3

\* The record is the next the queue writes for the job: a new job is queued,
\* a stored one moves forward
Advances(st, jobId, record) ==
    IF JobKey(jobId) \in DOMAIN st
      THEN Stage(record.status) = Stage(st[JobKey(jobId)].status) + 1
      ELSE record.status = "queued"

\* this.jobs.get(jobId): <<the record>>, or <<>> for undefined
Cached(cache, jobId) == IF jobId \in DOMAIN cache THEN <<cache[jobId]>> ELSE <<>>

\* A lookup that trusts no cached record
IsTerminalNever(cached) == FALSE

\* cached && (cached.status === 'completed' || cached.status === 'failed')
IsTerminal(cached) == cached /= <<>> /\ cached[1].status \in {"completed", "failed"}

\* publishStatusChange: the event type of a job's status
EventType(status) ==
    IF status = "completed" THEN "gateway:job:completed"
    ELSE IF status = "failed" THEN "gateway:job:failed"
    ELSE "gateway:job:submitted"

\* An event the tracker published, with the method that published it
JobEvent(name, job, by) == [name |-> name, jobId |-> job.job_id, status |-> job.status,
                            by |-> by]

\* previousStatus && previousStatus !== status.status
StatusChanged(previous, status) == previous /= <<>> /\ previous[1].status /= status.status

\* eventManager.publish: the events published so far, each with the number of
\* times it was published
Publish(log, events) ==
    [e \in DOMAIN log \cup Range(events) |->
        (IF e \in DOMAIN log THEN log[e] ELSE 0) + (IF e \in Range(events) THEN 1 ELSE 0)]

\* A call of the tracker begins
Begun(op, jobId, cached) ==
    [pc |-> "read", op |-> op, jobId |-> jobId, cached |-> cached, reads |-> 0,
     result |-> <<>>, fetched |-> FALSE, threw |-> FALSE, raised |-> FALSE,
     seen |-> << >>]

\* trackJob(jobId) is called: it awaits stateManager.get
TrackJob(c, jobId) ==
    /\ jobCall[c].pc \in {"idle", "done"}
    /\ jobLog.calls < MaxCalls
    /\ jobCall' = [jobCall EXCEPT ![c] = Begun("trackJob", jobId, <<>>)]
    /\ jobLog' = [jobLog EXCEPT !.calls = @ + 1]
    /\ UNCHANGED <<clock, store, memoryCounters, rrIndex, backends, config, rq, arrivals,
                   admitted, memAdmitted, cacheVars, registryVars, jobs, apiVars,
                   timerVars>>

\* trackJob goes on after its await, the read having found the store as st:
\* the record is cached and gateway:job:submitted published, or there is no
\* record, or the read threw and the catch logs it
TrackJobSettles(c, ok, st) ==
    LET call == jobCall[c]
        key == JobKey(call.jobId)
        ended == [call EXCEPT !.pc = "done", !.reads = @ + 1, !.threw = ~ok]
    IN  /\ call.op = "trackJob"
        /\ IF ok /\ key \in DOMAIN st
             THEN LET ev == JobEvent("gateway:job:submitted", st[key], "trackJob")
                  IN  /\ jobs' = Put(jobs, call.jobId, st[key])
                      /\ jobCall' = [jobCall EXCEPT ![c] = [ended EXCEPT !.fetched = TRUE]]
                      /\ jobLog' = [jobLog EXCEPT !.events = Publish(@, <<ev>>)]
             ELSE /\ jobCall' = [jobCall EXCEPT ![c] = ended]
                  /\ UNCHANGED <<jobs, jobLog>>
        /\ UNCHANGED <<clock, store, memoryCounters, rrIndex, backends, config, rq,
                       arrivals, admitted, memAdmitted, cacheVars, registryVars, apiVars,
                   timerVars>>

\* trackJob's read settles: the store is read and the call goes on at once
TrackJobRead(c, ok) == jobCall[c].pc = "read" /\ TrackJobSettles(c, ok, store)

\* getJobStatus(jobId) is called: a cached terminal record is returned at
\* once, otherwise the call awaits stateManager.get
GetJobStatus(c, jobId) ==
    LET cached == Cached(jobs, jobId)
    IN  /\ jobCall[c].pc \in {"idle", "done"}
        /\ jobLog.calls < MaxCalls
        /\ jobCall' = [jobCall EXCEPT ![c] =
              IF IsTerminal(cached)
                THEN [Begun("getJobStatus", jobId, cached) EXCEPT
                         !.pc = "done", !.result = cached]
                ELSE Begun("getJobStatus", jobId, cached)]
        /\ jobLog' = [jobLog EXCEPT !.calls = @ + 1]
        /\ UNCHANGED <<clock, store, memoryCounters, rrIndex, backends, config, rq,
                       arrivals, admitted, memAdmitted, cacheVars, registryVars, jobs,
                       apiVars,
                   timerVars>>

\* A lookup whose failed read leaves the call with the error
NotFetchedRaises(call) == [call EXCEPT !.pc = "done", !.reads = @ + 1, !.raised = TRUE]

\* No record was fetched (there is none, or the read threw and the catch
\* logged it): return cached
NotFetched(call) == [call EXCEPT !.pc = "done", !.reads = @ + 1, !.result = call.cached]

\* getJobStatus goes on after its await, the read having found the store as st
GetJobStatusSettles(c, ok, st) ==
    LET call == jobCall[c]
        key == JobKey(call.jobId)
    IN  /\ call.op = "getJobStatus"
        /\ IF ok /\ key \in DOMAIN st
             THEN LET status == st[key]
                      evs == IF StatusChanged(Cached(jobs, call.jobId), status)
                               THEN <<JobEvent(EventType(status.status), status,
                                               "getJobStatus")>>
                               ELSE <<>>
                  IN  /\ jobs' = Put(jobs, call.jobId, status)
                      /\ jobCall' = [jobCall EXCEPT ![c] =
                            [call EXCEPT !.pc = "done", !.reads = @ + 1,
                                         !.fetched = TRUE, !.result = <<status>>]]
                      /\ jobLog' = [jobLog EXCEPT !.events = Publish(@, evs)]
             ELSE /\ jobCall' = [jobCall EXCEPT ![c] =
                        [NotFetched(call) EXCEPT !.threw = ~ok]]
                  /\ UNCHANGED <<jobs, jobLog>>
        /\ UNCHANGED <<clock, store, memoryCounters, rrIndex, backends, config, rq,
                       arrivals, admitted, memAdmitted, cacheVars, registryVars, apiVars,
                   timerVars>>

\* getJobStatus's read settles: the store is read and the call goes on at once
GetJobStatusRead(c, ok) == jobCall[c].pc = "read" /\ GetJobStatusSettles(c, ok, store)

\* The store answers the read of a call; the answer is on its way to the call
ReadServed(c) ==
    LET call == jobCall[c]
    IN  /\ call.pc = "read"
        /\ jobCall' = [jobCall EXCEPT ![c] =
              [call EXCEPT !.pc = "served",
                           !.seen = [k \in {JobKey(call.jobId)} \cap DOMAIN store |->
                                        store[k]]]]
        /\ UNCHANGED <<clock, store, memoryCounters, rrIndex, backends, config, rq,
                       arrivals, admitted, memAdmitted, cacheVars, registryVars, jobs,
                       jobLog, apiVars,
                   timerVars>>

\* The answer reaches the call, after the answers of reads served later
\* perhaps: the call goes on with what its read saw
TrackJobReply(c) == jobCall[c].pc = "served" /\ TrackJobSettles(c, TRUE, jobCall[c].seen)
GetJobStatusReply(c) ==
    jobCall[c].pc = "served" /\ GetJobStatusSettles(c, TRUE, jobCall[c].seen)

\* ------------------------------------------------------------------ specifications
Quiet == \A r \in Procs : rq[r].pc \in {"idle", "done"}

\* Responses of the backend: a success and a failure
Response200 == [statusCode |-> 200, headers |-> {"content-type", "transfer-encoding"},
                body |-> "models"]
Response500 == [statusCode |-> 500, headers |-> {"content-type"}, body |-> "error"]
Responses == {Response200, Response500}

\* The handlers and the middleware's return, with store calls that succeed
\* (TRUE) or throw (FALSE) as OKs allows
Handle(OKs) ==
    \/ \E r \in Procs : AuthHandler(r)
    \/ \E r \in Procs : RateLimitBegin(r)
    \/ \E r \in Procs, ok \in OKs : RateLimitGet(r, ok)
    \/ \E r \in Procs, ok \in OKs : RateLimitSet(r, ok)
    \/ \E r \in Procs, ok \in OKs : CacheHandler(r, ok)
    \/ \E r \in Procs : RouterHandler(r)
    \/ \E r \in Procs : Orchestrate(r)

\* One client, one request at a time, the store reachable
NextSeq ==
    \/ Tick
    \/ \E r \in Procs, h \in OneClient, m \in {"POST"}, u \in Urls :
           Quiet /\ Arrive(r, h, m, u)
    \/ Handle({TRUE})

SpecSeq == InitWith(AllOn(1..MaxRequests)) /\ [][NextSeq]_vars

\* One client, requests in flight together, the store reachable
NextConc ==
    \/ Tick
    \/ \E r \in Procs, h \in OneClient, m \in {"POST"}, u \in Urls : Arrive(r, h, m, u)
    \/ Handle({TRUE})

SpecConc == InitWith(AllOn(1..MaxRequests)) /\ [][NextConc]_vars

\* One client, requests in flight together, store calls that may throw
NextFail ==
    \/ Tick
    \/ \E r \in Procs, h \in OneClient, m \in {"POST"}, u \in Urls : Arrive(r, h, m, u)
    \/ Handle(BOOLEAN)

SpecFail == InitWith(AllOn({MaxRequests})) /\ [][NextFail]_vars

\* One client, one request at a time, store calls that may throw: the store
\* becomes unreachable and recovers between and within admission checks
NextOutage ==
    \/ Tick
    \/ \E r \in Procs, h \in OneClient, m \in {"POST"}, u \in Urls :
           Quiet /\ Arrive(r, h, m, u)
    \/ Handle(BOOLEAN)

SpecOutage == InitWith(AllOn({MaxRequests})) /\ [][NextOutage]_vars

\* Requests of four clients in flight together, the store reachable
NextClients ==
    \/ \E r \in Procs, h \in FourClients :
           arrivals < PipeArrivals /\ Arrive(r, h, "POST", ApiUrl)
    \/ Handle({TRUE})

SpecClients == InitWith(AllOn({1})) /\ [][NextClients]_vars

\* Requests of every kind under every plugin configuration, in flight
\* together within one clock step, with cached responses and store calls
\* that may throw
NextPipe ==
    \/ \E r \in Procs, h \in AllHeaders, m \in Methods, u \in Urls :
           arrivals < PipeArrivals /\ Arrive(r, h, m, u)
    \/ \E u \in Urls :
           config.cacheEnabled /\ storeCall.calls < 1
               /\ StoreResponse("GET", u, ParseQuery(u.rawQuery), Response200, TRUE)
    \/ Handle(BOOLEAN)

SpecPipe == InitWith(Configs({1})) /\ [][NextPipe]_vars

\* The cache and the router alone: one request at a time to endpoints with
\* query parameters, storeResponse called with any method, path, query object
\* and response, cache reads and writes that may throw, entries that expire
CacheOnly(limits) ==
    {c \in Configs(limits) : c.cacheEnabled /\ ~c.authEnabled /\ ~c.rateLimitEnabled}

NextCache ==
    \/ Tick
    \/ \E m \in Methods, u \in CacheUrls :
           arrivals < PipeArrivals /\ Arrive("p1", NoHeaders, m, u)
    \/ \E m \in Methods, u \in CacheUrls, q \in QueryObjects, resp \in Responses,
          ok \in BOOLEAN :
           storeCall.calls < MaxStores /\ StoreResponse(m, u, q, resp, ok)
    \/ \E r \in Procs, ok \in BOOLEAN : CacheHandler(r, ok)
    \/ \E r \in Procs : RouterHandler(r)
    \/ \E r \in Procs : Orchestrate(r)

SpecCache == InitWith(CacheOnly({MaxRequests})) /\ [][NextCache]_vars

\* The registry alone: one refreshWorkers call at a time, worker processes
\* that write the index and the status records at any moment, store reads
\* that may throw
NextRegistry ==
    \/ \E index \in Indexes : RemoteIndex(index)
    \/ RemoteIndexGone
    \/ \E id \in WorkerIds, rec \in StatusRecords, present \in BOOLEAN :
           RemoteStatus(id, rec, present)
    \/ RefreshStart("t1")
    \/ \E t \in Runs, ok \in BOOLEAN : IndexRead(t, ok)
    \/ \E t \in Runs, ok \in BOOLEAN : StatusRead(t, ok)
    \/ \E t \in Runs : RemoveDeparted(t)

SpecRegistry == InitWith(AllOn({MaxRequests})) /\ [][NextRegistry]_vars

\* A refreshWorkers call is between its start and its end
Running(t) == refresh[t].pc \in {"index", "loop"}

\* The poll timer fires while the call before is still awaiting the store:
\* calls t1 run one after another, and once a call t2 starts during one of
\* them; workers come and go in the index, the reads succeed
NextOverlap ==
    \/ \E index \in {<<>>, <<"A">>, <<"B">>} : RemoteIndex(index)
    \/ \E rec \in {x \in StatusRecords : x.status = "idle"} :
           RemoteStatus(rec.workerId, rec, TRUE)
    \/ refresh["t2"].pc = "idle" /\ RefreshStart("t1")
    \/ refresh["t2"].pc = "idle" /\ Running("t1") /\ RefreshStart("t2")
    \/ \E t \in Runs : IndexRead(t, TRUE)
    \/ \E t \in Runs : StatusRead(t, TRUE)
    \/ \E t \in Runs : RemoveDeparted(t)

SpecOverlap == InitWith(AllOn({MaxRequests})) /\ [][NextOverlap]_vars

\* The registry started and stopped in any order while worker A comes and
\* goes; the reads succeed
NextLifecycle ==
    \/ \E index \in {<<>>, <<"A">>} : RemoteIndex(index)
    \/ \E rec \in {x \in StatusRecords : x.status = "idle" /\ x.workerId = "A"} :
           RemoteStatus("A", rec, TRUE)
    \/ \E t \in Runs : Start(t)
    \/ \E t \in Runs : StartArmed(t)
    \/ Stop
    \/ \E t \in Runs : TimerFires(t)
    \/ \E t \in Runs : IndexRead(t, TRUE)
    \/ \E t \in Runs : StatusRead(t, TRUE)
    \/ \E t \in Runs : RemoveDeparted(t)

SpecLifecycle == InitWith(AllOn({MaxRequests})) /\ [][NextLifecycle]_vars

\* The job tracker alone: trackJob and getJobStatus calls in flight together,
\* the queue's writer storing any record at any moment, store reads that may
\* throw
NextJobs ==
    \/ \E id \in JobIds, rec \in JobRecords : RemoteJob(id, rec)
    \/ \E c \in Callers, id \in JobIds : TrackJob(c, id)
    \/ \E c \in Callers, ok \in BOOLEAN : TrackJobRead(c, ok)
    \/ \E c \in Callers, id \in JobIds : GetJobStatus(c, id)
    \/ \E c \in Callers, ok \in BOOLEAN : GetJobStatusRead(c, ok)

SpecJobs == InitWith(AllOn({MaxRequests})) /\ [][NextJobs]_vars

\* No call of the tracker is in progress
JobsQuiet == \A c \in Callers : jobCall[c].pc \in {"idle", "done"}

\* The job tracker called sequentially while the queue moves the job forward
NextJobsSeq ==
    \/ \E id \in JobIds, rec \in JobRecords : Advances(store, id, rec) /\ RemoteJob(id, rec)
    \/ \E c \in Callers, id \in JobIds : JobsQuiet /\ TrackJob(c, id)
    \/ \E c \in Callers, ok \in BOOLEAN : TrackJobRead(c, ok)
    \/ \E c \in Callers, id \in JobIds : JobsQuiet /\ GetJobStatus(c, id)
    \/ \E c \in Callers, ok \in BOOLEAN : GetJobStatusRead(c, ok)

SpecJobsSeq == InitWith(AllOn({MaxRequests})) /\ [][NextJobsSeq]_vars

\* The job tracker called concurrently while the queue moves the job forward;
\* the answers of the store reach the calls in any order
NextJobsRace ==
    \/ \E id \in JobIds, rec \in JobRecords : Advances(store, id, rec) /\ RemoteJob(id, rec)
    \/ \E c \in Callers, id \in JobIds : TrackJob(c, id)
    \/ \E c \in Callers, id \in JobIds : GetJobStatus(c, id)
    \/ \E c \in Callers : ReadServed(c)
    \/ \E c \in Callers : TrackJobReply(c)
    \/ \E c \in Callers : GetJobStatusReply(c)

SpecJobsRace == InitWith(AllOn({MaxRequests})) /\ [][NextJobsRace]_vars

\* The router's API alone: selectTarget called with and without a region hint,
\* under each strategy and each backend list
NextRouter == \E region \in Regions : SelectTargetCall(region)

SpecRouter == InitOf(RouterConfigs, BackendLists) /\ [][NextRouter]_vars

\* A gateway in front of two backends under a strategy that is to balance:
\* no authentication, rate limit or cache, so every request reaches the router
BalanceConfigs ==
    [authEnabled : {FALSE}, rateLimitEnabled : {FALSE}, cacheEnabled : {FALSE},
     strategy : {"least-connections", "region-affinity"}, windowMs : {WindowMs},
     maxRequests : {MaxRequests}, ttlMs : {TtlMs}]

\* Requests in flight together through the router, next to calls of its API
NextBalance ==
    \/ \E r \in Procs : Arrive(r, NoHeaders, "POST", ApiUrl)
    \/ \E r \in Procs : RouterHandler(r)
    \/ \E r \in Procs : Orchestrate(r)
    \/ \E region \in Regions : SelectTargetCall(region)

SpecBalance == InitOf(BalanceConfigs, {<<"X", "Y">>}) /\ [][NextBalance]_vars

\* Incoming events for an API path and for a gateway-local path, handled by
\* every plugin, in flight together, store calls that may throw
NextGateway ==
    \/ \E r \in Procs, u \in {ApiUrl, GatewayUrl} :
           arrivals < PipeArrivals /\ Arrive(r, HdrKey, "GET", u)
    \/ Handle(BOOLEAN)

SpecGateway == InitWith(AllOn({1})) /\ [][NextGateway]_vars

\* Every operation that uses the shared store, once each: a request through
\* the pipeline, a storeResponse call, a health check, a refreshWorkers call,
\* a job tracker call, and the external writers of the worker and job keys;
\* store calls may throw
NextStore ==
    \/ \E m \in Methods : arrivals < 1 /\ Arrive("p1", HdrKey, m, ApiUrl)
    \/ Handle(BOOLEAN)
    \/ \E ok \in BOOLEAN :
           storeCall.calls < 1
               /\ StoreResponse("GET", ApiUrl, ParseQuery(ApiUrl.rawQuery), Response200, ok)
    \/ \E ok \in BOOLEAN : health = NoHealth /\ GetHealth(ok)
    \/ \E okSet, okGet \in BOOLEAN, fastapi \in FastapiChecks :
           health = NoHealth /\ GetDetailedHealth(TRUE, okSet, okGet, fastapi, 0)
    \/ RemoteIndex(<<"A">>)
    \/ RemoteIndexGone
    \/ \E rec \in StatusRecords : rec.status = "idle" /\ RemoteStatus("A", rec, TRUE)
    \/ refresh["t1"].pc = "idle" /\ RefreshStart("t1")
    \/ \E t \in Runs, ok \in BOOLEAN : IndexRead(t, ok)
    \/ \E t \in Runs, ok \in BOOLEAN : StatusRead(t, ok)
    \/ \E t \in Runs : RemoveDeparted(t)
    \/ \E rec \in JobRecords : rec.status = "queued" /\ RemoteJob("j1", rec)
    \/ jobLog.calls < 1 /\ TrackJob("c1", "j1")
    \/ \E ok \in BOOLEAN : TrackJobRead("c1", ok)
    \/ jobLog.calls < 1 /\ GetJobStatus("c1", "j1")
    \/ \E ok \in BOOLEAN : GetJobStatusRead("c1", ok)

SpecStore == InitWith(AllOn({MaxRequests})) /\ [][NextStore]_vars

\* ------------------------------------------------------------------ claims
RECURSIVE SumOver(_, _)
SumOver(f, S) ==
    IF S = {} THEN 0
    ELSE LET x == CHOOSE y \in S : TRUE IN f[x] + SumOver(f, S \ {x})

\* Admissions of clientKey recorded in hist under the instants of (from, to]
WindowCount(hist, clientKey, from, to) ==
    SumOver([t \in Time |-> Count(hist, clientKey, t)], {t \in Time : from < t /\ t <= to})

\* Occurrences of t in the stored window of clientKey
Stored(clientKey, t) ==
    LET key == RateLimitKey(clientKey)
    IN  IF Has(key) THEN Len(SelectSeq(store[key], LAMBDA x : x = t)) ELSE 0

TheClient == AuthDecision(HdrKey).identity

\* C1: with the store reachable and one admission check after another, the
\* requests of one client admitted within any window (e - windowMs, e] number
\* at most maxRequests; hence a request arriving once maxRequests were admitted
\* in its window is rejected.
C1_AdmittedWithinLimit ==
    \A k \in DOMAIN admitted : \A e \in Time :
        WindowCount(admitted, k, e - config.windowMs, e) <= config.maxRequests

\* C1 witness: maxRequests requests were admitted within the window of a
\* request that the store-mode check has just rejected with a 429.
C1_Witness ==
    \E r \in Procs :
        /\ rq[r].pc = "dispatch" /\ rq[r].rlMode = "store" /\ ~rq[r].rlAllowed
        /\ rq[r].status = 429 /\ rq[r].cancelled
        /\ config.maxRequests = MaxRequests
        /\ WindowCount(admitted, TheClient, rq[r].now - config.windowMs, rq[r].now)
             = config.maxRequests

\* C2: admission is atomic per key: under concurrent checks of one key the
\* admissions within one window still number at most maxRequests, and every
\* admitted timestamp still inside the window is in the stored window (no
\* lost update).
C2_AtomicAdmission ==
    \A k \in DOMAIN admitted :
        /\ \A e \in Time :
              WindowCount(admitted, k, e - config.windowMs, e) <= config.maxRequests
        /\ \A t \in Time :
              t > clock - config.windowMs => Stored(k, t) >= Count(admitted, k, t)

\* The window stored for clientKey in the given store
WindowOf(st, clientKey) ==
    IF RateLimitKey(clientKey) \in DOMAIN st THEN st[RateLimitKey(clientKey)] ELSE <<>>

\* The least element of a non-empty sequence of instants
Oldest(ts) == CHOOSE t \in {ts[i] : i \in DOMAIN ts} : \A i \in DOMAIN ts : t <= ts[i]

\* C3 for the check of request r: the step that settles the store read and
\* the step that settles the store write.
C3_Check(r) ==
    LET q == rq[r]
        q2 == rq'[r]
        k == ClientKey(q)
        retained == SelectSeq(WindowOf(store, k), LAMBDA t : t > q.now - config.windowMs)
    IN  /\ (q.pc = "rl_get" /\ q2.pc /= "rl_get" /\ q2.rlMode /= "memory") =>
              IF Len(retained) >= config.maxRequests
                THEN /\ q2.rlMode = "store" /\ ~q2.rlAllowed
                     /\ q2.rateLimitInfo.resetAt = Oldest(retained) + config.windowMs
                     /\ store' = store
                ELSE /\ q2.pc = "rl_set"
                     /\ q2.write = Append(retained, q.now)
        /\ (q.pc = "rl_set" /\ q2.rlMode = "store") =>
              /\ WindowOf(store', k) = q.write
              /\ q2.rlAllowed
              /\ q2.rateLimitInfo.remaining = config.maxRequests - Len(WindowOf(store', k))

\* C3: every store-mode check at time now rejects, when the timestamps
\* > now - windowMs number maxRequests or more, with resetAt = the oldest of
\* them + windowMs and the stored window untouched; otherwise it appends now,
\* persists, and admits with remaining = maxRequests - the new count.
C3_StoreModeResult == [][\A r \in Procs : C3_Check(r)]_vars

\* C4: at every instant t at which the stored window makes the check reject
\* with resetAt = R, the same window makes the check at R admit: the entry
\* equal to R - windowMs is dropped, only entries > windowStart are retained.
C4_AdmittedAtReset ==
    \A k \in DOMAIN admitted : \A t \in Time :
        LET ts == Retained(WindowOf(store, k), t - config.windowMs)
        IN  /\ \A i \in DOMAIN ts : ts[i] /= t - config.windowMs
            /\ LimitReached(Len(ts), config) =>
                 ~LimitReached(
                     Len(Retained(WindowOf(store, k), RejectResult(ts, config).resetAt
                                                         - config.windowMs)),
                     config)

\* C4 witness: one request was rejected by the store-mode check with
\* resetAt = R, and the request whose check began at R passed the limit test.
C4_Witness ==
    \E p, r \in Procs :
        /\ rq[p].pc = "dispatch" /\ rq[p].rlMode = "store" /\ ~rq[p].rlAllowed
        /\ rq[p].status = 429
        /\ rq[r].pc = "rl_set"
        /\ rq[r].now = rq[p].rateLimitInfo.resetAt
        /\ rq[p].rateLimitInfo.resetAt - config.windowMs
             \in {WindowOf(store, TheClient)[i] : i \in DOMAIN WindowOf(store, TheClient)}

\* C5 for the check of request r, at the step that completes it in store mode
C5_Check(r) ==
    LET q == rq[r]
        w == WindowOf(store', ClientKey(q))
    IN  (q.rlMode = None /\ rq'[r].rlMode = "store") =>
            /\ \A i \in DOMAIN w : q.now - config.windowMs < w[i] /\ w[i] <= q.now
            /\ \A i, j \in DOMAIN w : i < j => w[i] <= w[j]
            /\ Len(w) <= config.maxRequests

\* C5: after every completed store-mode check at time now the persisted
\* timestamps lie in (now - windowMs, now], are in non-decreasing order and
\* number at most maxRequests.
C5_RateWindow == [][\A r \in Procs : C5_Check(r)]_vars

\* C6, the counters: the fallback admits at most maxRequests requests of a
\* client within one fixed window.
C6_FixedWindowBound ==
    \A k \in DOMAIN memAdmitted : \A ws \in DOMAIN memAdmitted[k] :
        memAdmitted[k][ws] <= config.maxRequests

\* C6 for request r, at a step in which its store read or write threw
C6_Decided(r) ==
    LET q == rq[r]
        q2 == rq'[r]
        k == ClientKey(q)
    IN  (q.pc \in {"rl_get", "rl_set"} /\ q2.rlMode = "memory") =>
            /\ q2.pc = "dispatch"
            /\ k \in DOMAIN memoryCounters'
            /\ IF k \notin DOMAIN memoryCounters
                    \/ clock - memoryCounters[k].windowStart > config.windowMs
                 THEN memoryCounters'[k] = [count |-> 1, windowStart |-> clock]
                 ELSE memoryCounters'[k] =
                        [count |-> memoryCounters[k].count + 1,
                         windowStart |-> memoryCounters[k].windowStart]
            /\ q2.rlAllowed <=> memoryCounters'[k].count <= config.maxRequests
            /\ q2.rateLimitInfo.set
            /\ IF q2.rlAllowed THEN ~q2.cancelled /\ q2.status = 0
               ELSE q2.cancelled /\ q2.status = 429

\* C6: a check whose store read or write fails is decided by the client's
\* in-memory counter: a new fixed window starts when there is none or the
\* current one is older than windowMs, at most maxRequests requests are
\* admitted per window, the others get a 429 with the event cancelled, and the
\* handler returns normally.
C6_Fallback == [](C6_FixedWindowBound) /\ [][\A r \in Procs : C6_Decided(r)]_vars

\* C6 witness: the fallback has admitted maxRequests requests in one fixed
\* window and has just rejected the next with a 429.
C6_Witness ==
    \E r \in Procs :
        /\ rq[r].pc = "dispatch" /\ rq[r].rlMode = "memory" /\ ~rq[r].rlAllowed
        /\ rq[r].status = 429 /\ rq[r].cancelled
        /\ TheClient \in DOMAIN memoryCounters
        /\ Count(memAdmitted, TheClient, memoryCounters[TheClient].windowStart)
             = config.maxRequests
        /\ memoryCounters[TheClient].windowStart > 0

\* The handlers of the enabled plugins in the order auth, ratelimit, cache, router
EnabledInOrder(cfg) ==
    SelectSeq(<<"auth", "ratelimit", "cache", "router">>,
              LAMBDA h : \/ h = "auth" /\ cfg.authEnabled
                         \/ h = "ratelimit" /\ cfg.rateLimitEnabled
                         \/ h = "cache" /\ cfg.cacheEnabled
                         \/ h = "router")

\* C7, the order: the handlers invoked for a request so far are an initial
\* part of auth, ratelimit, cache, router (the enabled ones)
C7_InOrder ==
    \A r \in Procs :
        /\ Len(rq[r].ran) <= Len(EnabledInOrder(config))
        /\ rq[r].ran = SubSeq(EnabledInOrder(config), 1, Len(rq[r].ran))

\* C7, one step of request r: a handler is invoked only when no handler of
\* the request is running and the event is not cancelled
C7_Invoked(r) ==
    (rq'[r].ran /= rq[r].ran /\ rq'[r].ran /= <<>>) =>
        /\ rq[r].pc = "dispatch"
        /\ ~rq[r].cancelled
        /\ Len(rq'[r].ran) = Len(rq[r].ran) + 1

\* C7: the handlers of one incoming event run one after the other in the
\* order auth(100), ratelimit(90), cache(80), router(70), and once a handler
\* has cancelled the event no handler of lower priority is invoked.
C7_PriorityOrder == [](C7_InOrder) /\ [][\A r \in Procs : C7_Invoked(r)]_vars

\* C7 witness: with every plugin enabled the rate limiter cancelled a request
\* after auth, and the dispatcher has no handler left for it.
C7_Witness ==
    \E r \in Procs :
        /\ config.authEnabled /\ config.rateLimitEnabled /\ config.cacheEnabled
        /\ rq[r].pc = "dispatch" /\ rq[r].cancelled /\ rq[r].status = 429
        /\ rq[r].ran = <<"auth", "ratelimit">>
        /\ NextHandler(rq[r], config) = None

\* C8: a request whose event was cancelled is never forwarded to the backend;
\* the proxy is reached only by requests whose event was not cancelled.
C8_CancelledNotForwarded ==
    \A r \in Procs :
        /\ rq[r].proxied => rq[r].pc = "done" /\ ~rq[r].cancelled
        /\ rq[r].pc = "done" => (rq[r].proxied <=> ~rq[r].cancelled)

\* C8 witness: the middleware returned for a request cancelled with a 429,
\* and for another request it called next().
C8_Witness ==
    \E r, p \in Procs :
        /\ rq[r].pc = "done" /\ rq[r].cancelled /\ rq[r].status = 429 /\ ~rq[r].proxied
        /\ rq[p].pc = "done" /\ ~rq[p].cancelled /\ rq[p].proxied

\* The headers carry no allow-listed X-API-Key, no X-Worker-Token and no
\* Authorization value that starts with 'Bearer '
NoCredential(h) ==
    /\ h.apiKey \notin ConfiguredApiKeys
    /\ h.workerToken = <<>>
    /\ h.authorization = <<>> \/ Head(h.authorization) /= "Bearer "

\* C9: with auth enabled, a request without credentials has, once the auth
\* handler has run, gateway:auth:rejected published, a 401 and a cancelled
\* event; and every request the rate-limit handler was invoked for has
\* context.auth set.
C9_AuthGate ==
    config.authEnabled =>
        \A r \in Procs :
            /\ ("auth" \in Range(rq[r].ran) /\ NoCredential(rq[r].headers)) =>
                  /\ "gateway:auth:rejected" \in rq[r].events
                  /\ rq[r].status = 401
                  /\ rq[r].cancelled
            /\ "ratelimit" \in Range(rq[r].ran) => rq[r].auth.type /= None

\* C9 witness: a request with a Basic Authorization header was rejected, and
\* another one, with the configured API key, reached the rate limiter.
C9_Witness ==
    \E r, p \in Procs :
        /\ config.authEnabled
        /\ rq[r].headers = HdrBasic /\ rq[r].status = 401 /\ rq[r].cancelled
        /\ "gateway:auth:rejected" \in rq[r].events
        /\ rq[p].headers = HdrKey /\ "ratelimit" \in Range(rq[p].ran)
        /\ rq[p].auth.type = "api-key"

\* The request was rejected by the auth handler
AuthRejected(q) == "gateway:auth:rejected" \in q.events

\* C10, one step of the gateway: a step taken for a request the auth handler
\* rejects or has rejected changes no stored window, no in-memory counter, no
\* cache entry and not rrIndex
C10_Step(r) ==
    (rq'[r] /= rq[r] /\ (AuthRejected(rq[r]) \/ AuthRejected(rq'[r]))) =>
        /\ store' = store
        /\ memoryCounters' = memoryCounters
        /\ rrIndex' = rrIndex
        /\ rq'[r].targetUrl = None

\* C10, the request: nothing past the auth handler has run for it
C10_Untouched ==
    \A r \in Procs :
        AuthRejected(rq[r]) =>
            /\ rq[r].touched = {}
            /\ rq[r].targetUrl = None
            /\ ~rq[r].rateLimitInfo.set
            /\ ~rq[r].cached
            /\ rq[r].ran = <<"auth">>

\* C10: a request rejected by auth consumes no rate-limit quota and touches
\* no cache or routing state.
C10_RejectedLeavesNoTrace == [](C10_Untouched) /\ [][\A r \in Procs : C10_Step(r)]_vars

\* C10 witness: the middleware has returned for a request rejected with a 401
\* while the window another request was admitted into is in the store.
C10_Witness ==
    \E r \in Procs :
        /\ rq[r].pc = "done" /\ rq[r].status = 401 /\ rq[r].cancelled /\ ~rq[r].proxied
        /\ WindowOf(store, TheClient) /= <<>>

\* C11: once the middleware has returned for a request whose incoming event
\* was cancelled, gateway:request:completed has been published for it.
C11_CompletedPublished ==
    \A r \in Procs :
        (rq[r].pc = "done" /\ rq[r].cancelled) =>
            "gateway:request:completed" \in rq[r].events

\* The step is the cache lookup of request r, and its store read succeeded
LooksUp(r) ==
    /\ rq[r].pc = "dispatch"
    /\ rq[r].method = "GET"
    /\ "cache" \notin Range(rq[r].ran)
    /\ "cache" \in Range(rq'[r].ran)
    /\ rq'[r].cacheHeader /= "ERROR"

\* The same parameters with the same values, in whatever order
SameQuery(q1, q2) == Range(q1) = Range(q2)

\* The response fields of a cached entry
Content(entry) ==
    [statusCode |-> entry.statusCode, headers |-> entry.headers, body |-> entry.body]

\* C12 for the lookup of request r: every entry written by a storeResponse
\* call for the request's method and path and for its query in any key order
\* is returned while younger than the ttl, and is a miss from then on
C12_Lookup(r) ==
    LooksUp(r) =>
        \A k \in DOMAIN storedFor :
            (/\ storedFor[k].method = rq[r].method
             /\ storedFor[k].path = rq[r].url
             /\ SameQuery(storedFor[k].query, ParseQuery(rq[r].url.rawQuery))) =>
                IF clock - store[k].cachedAt < config.ttlMs
                  THEN /\ rq'[r].cacheHeader = "HIT"
                       /\ rq'[r].cached
                       /\ Content(rq'[r].cachedResponse) = Content(store[k])
                       /\ rq'[r].status = store[k].statusCode
                       /\ rq'[r].resBody = store[k].body
                  ELSE /\ rq'[r].cacheHeader = "MISS"
                       /\ ~rq'[r].cached
                       /\ rq'[r].cachedResponse = NoEntry

\* C12: after storeResponse(GET, path, query, entry) succeeded at t0, a lookup
\* for the same method, path and query (in any key order) at t is a hit with
\* the stored status, headers and body when t - t0 < ttl, and a miss when
\* t - t0 >= ttl.
C12_RoundTrip == [][\A r \in Procs : C12_Lookup(r)]_vars

\* C12 witness: a hit, later than the store, on an entry stored with the
\* query keys in the other order.
C12_Witness ==
    \E r \in Procs : \E k \in DOMAIN storedFor :
        /\ rq[r].cacheHeader = "HIT"
        /\ storedFor[k].path = rq[r].url
        /\ storedFor[k].query /= ParseQuery(rq[r].url.rawQuery)
        /\ SameQuery(storedFor[k].query, ParseQuery(rq[r].url.rawQuery))
        /\ Content(rq[r].cachedResponse) = Content(store[k])
        /\ clock > store[k].cachedAt

\* C13: the key of every stored entry is the hash of method:path?sortedQuery;
\* the inputs that differ from the entry's only in the order of the query
\* parameters have the same pre-hash string, and those that differ from it in
\* method or in path have a different one.
C13_KeyOfRequest ==
    \A k \in DOMAIN storedFor :
        LET c == storedFor[k]
            raw == RawKey(c.method, c.path, c.query)
        IN  /\ k = <<"gateway:cache:", "md5">> \o raw
            /\ \A q \in QueryObjects :
                  SameQuery(q, c.query) => RawKey(c.method, c.path, q) = raw
            /\ \A m \in Methods : \A p \in CacheUrls :
                  (m /= c.method \/ p /= c.path) => RawKey(m, p, c.query) /= raw

\* C13 witness: an entry stored with its query keys out of sort() order, under
\* the key of the sorted parameters.
C13_Witness ==
    \E k \in DOMAIN storedFor :
        /\ ObjectKeys(storedFor[k].query) = <<"b", "a">>
        /\ k = <<"gateway:cache:", "md5", "GET", ":">> \o UrlString(storedFor[k].path)
                 \o <<"?", "a", "=", "1", "&", "b", "=", "2">>

\* The two URLs name the same endpoint with the same query parameters
SameLogicalRequest(u1, u2) ==
    u1.pathname = u2.pathname /\ SameQuery(ParseQuery(u1.rawQuery), ParseQuery(u2.rawQuery))

\* The cache key the incoming handler looks a request up under
LookupKey(q) == ComputeCacheKey(q.method, q.url, ParseQuery(q.url.rawQuery))

\* C14: a GET request in the pipeline is looked up under the key of every
\* entry that was stored for a GET request to the same endpoint with the same
\* query parameters in any order.
C14_SameKeyAnyOrder ==
    \A r \in Procs : \A k \in DOMAIN storedFor :
        (/\ rq[r].pc = "dispatch"
         /\ rq[r].method = "GET"
         /\ storedFor[k].method = "GET"
         /\ storedFor[k].query = ParseQuery(storedFor[k].path.rawQuery)
         /\ SameLogicalRequest(storedFor[k].path, rq[r].url)) =>
            LookupKey(rq[r]) = k

\* C15 for the lookup of request r and for the step that ends its dispatch
C15_Lookup(r) ==
    /\ (/\ LooksUp(r)
        /\ LookupKey(rq[r]) \in DOMAIN store
        /\ clock - store[LookupKey(rq[r])].cachedAt >= config.ttlMs) =>
            /\ rq'[r].cacheHeader = "MISS"
            /\ "gateway:cache:miss" \in rq'[r].events
            /\ "gateway:cache:hit" \notin rq'[r].events
            /\ ~rq'[r].cancelled
            /\ ~rq'[r].cached
            /\ rq'[r].cachedResponse = NoEntry
            /\ rq'[r].resBody = None
            /\ NextHandler(rq'[r], config) = "router"
    /\ (rq[r].cacheHeader = "MISS" /\ rq'[r].pc = "done") =>
            /\ "router" \in Range(rq[r].ran)
            /\ rq'[r].proxied

\* C15: a lookup that finds an entry with now - cachedAt >= ttl in the store
\* is a miss (X-Gateway-Cache: MISS, gateway:cache:miss, event not cancelled,
\* context.cached not set) and the request goes on to the router.
C15_ExpiredNotServed == [][\A r \in Procs : C15_Lookup(r)]_vars

\* C15 witness: a miss on an entry that is present and as old as the ttl.
C15_Witness ==
    \E r \in Procs :
        /\ rq[r].cacheHeader = "MISS"
        /\ rq[r].pc = "dispatch"
        /\ LookupKey(rq[r]) \in DOMAIN store
        /\ clock - store[LookupKey(rq[r])].cachedAt = config.ttlMs
        /\ "router" \in Range(rq[r].ran)

\* C16: every cache entry was stored for a GET request and has a 2xx status,
\* and a storeResponse call with another method or status wrote nothing.
C16_OnlySafeSuccessful ==
    /\ \A k \in DOMAIN storedFor :
          storedFor[k].method = "GET" /\ store[k].statusCode \in 200..299
    /\ (storeCall.method /= "GET" \/ storeCall.statusCode \notin 200..299) =>
          "gateway:cache:stored" \notin storeCall.events

\* C17, storeResponse: a call whose store write threw returned normally and
\* published no gateway:cache:stored
C17_WriteFailure ==
    storeCall.threw => storeCall.returned /\ "gateway:cache:stored" \notin storeCall.events

\* C17, the lookup of request r whose store read threw, and the step that
\* ends its dispatch
C17_ReadFailure(r) ==
    /\ (rq[r].cacheHeader = None /\ rq'[r].cacheHeader = "ERROR") =>
            /\ ~rq'[r].cancelled
            /\ rq'[r].status = 0
            /\ rq'[r].resBody = None
            /\ ~rq'[r].cached
            /\ NextHandler(rq'[r], config) = "router"
    /\ (rq[r].cacheHeader = "ERROR" /\ rq'[r].pc = "done") =>
            /\ "router" \in Range(rq[r].ran)
            /\ rq[r].targetUrl /= None
            /\ rq'[r].proxied

C18_HitEndsPipeline ==
    \A r \in Procs :
        /\ rq[r].cacheHeader = "HIT" =>
              /\ "gateway:cache:hit" \in rq[r].events
              /\ rq[r].cached
              /\ rq[r].status = rq[r].cachedResponse.statusCode
              /\ rq[r].resBody = rq[r].cachedResponse.body
              /\ rq[r].cancelled
              /\ "router" \notin Range(rq[r].ran)
              /\ rq[r].targetUrl = None
              /\ NextHandler(rq[r], config) = None
              /\ ~Forward(rq[r].cancelled)
              /\ config.authEnabled => rq[r].auth.type /= None
              /\ config.rateLimitEnabled => rq[r].rlAllowed
        /\ rq[r].status \in {401, 429} =>
              /\ rq[r].cacheHeader /= "HIT"
              /\ ~rq[r].cached
              /\ rq[r].resBody = None

\* C18 witness: with every plugin enabled, a request that auth and the rate
\* limiter let pass was served from the cache.
C18_Witness ==
    \E r \in Procs :
        /\ config.authEnabled /\ config.rateLimitEnabled /\ config.cacheEnabled
        /\ rq[r].cacheHeader = "HIT" /\ rq[r].status = 200 /\ rq[r].cancelled
        /\ rq[r].ran = <<"auth", "ratelimit", "cache">>
        /\ rq[r].auth.type /= None /\ rq[r].rlAllowed
        /\ rq[r].resBody = Response200.body

\* The number of events with this name published for the worker
EventCount(events, name, workerId) ==
    Cardinality({i \in DOMAIN events : events[i][1] = name /\ events[i][2] = workerId})

\* C19: when a refreshWorkers call whose reads all succeeded has ended, for
\* each id of the index with a fetched status record the snapshot holds the
\* fetched record, exactly one gateway:worker:online was published if the id
\* was not in the snapshot before and none otherwise, and exactly one
\* gateway:worker:updated if it was and the status differs and none otherwise.
C19_OnlineAndUpdated ==
    \A t \in Runs :
        (refresh[t].pc = "done" /\ ~refresh[t].threw) =>
            \A id \in Range(refresh[t].ids) \cap DOMAIN refresh[t].fetched :
                LET run == refresh[t]
                    known == id \in DOMAIN run.before
                    differs == known /\ run.before[id].status /= run.fetched[id].status
                IN  /\ id \in DOMAIN workers
                    /\ workers[id] = run.fetched[id]
                    /\ EventCount(run.events, "gateway:worker:online", id)
                         = IF known THEN 0 ELSE 1
                    /\ EventCount(run.events, "gateway:worker:updated", id)
                         = IF differs THEN 1 ELSE 0

\* C19 witness: one call found a new worker, a known worker whose status had
\* changed, and published one event for each.
C19_Witness ==
    \E t \in Runs :
        /\ refresh[t].pc = "done" /\ ~refresh[t].threw
        /\ refresh[t].ids = <<"A", "B">>
        /\ DOMAIN refresh[t].before = {"B"}
        /\ refresh[t].before["B"].status = "idle"
        /\ refresh[t].events = <<Published("gateway:worker:online", "A", "idle"),
                                 Published("gateway:worker:updated", "B", "busy")>>
        /\ DOMAIN workers = {"A", "B"}

\* C20: when a refreshWorkers call whose index read succeeded has ended, each
\* id that was in the snapshot before and is not in the fetched index is gone
\* from the snapshot, from getWorker and from getWorkerList, with exactly one
\* gateway:worker:offline published for it; the ids in the index are kept.
C20_DepartedRemoved ==
    \A t \in Runs :
        (refresh[t].pc = "done" /\ refresh[t].indexRead) =>
            \A id \in DOMAIN refresh[t].before :
                IF id \notin Range(refresh[t].ids)
                  THEN /\ id \notin DOMAIN workers
                       /\ GetWorker(workers, id) = <<>>
                       /\ \A w \in GetWorkerList(workers, None, None).workers :
                              w.workerId /= id
                       /\ EventCount(refresh[t].events, "gateway:worker:offline", id) = 1
                  ELSE /\ id \in DOMAIN workers
                       /\ EventCount(refresh[t].events, "gateway:worker:offline", id) = 0

\* C21: a refreshWorkers call whose index read threw ended in its catch: the
\* snapshot is the one the call found, the call published no event, it
\* returned normally and the next call can start.
C21_FailedIndexReadIsNoOp ==
    \A t \in Runs :
        (refresh[t].pc /= "idle" /\ refresh[t].threw /\ ~refresh[t].indexRead) =>
            /\ refresh[t].pc = "done"
            /\ workers = refresh[t].before
            /\ refresh[t].events = <<>>
            /\ ENABLED RefreshStart(t)

\* C21 witness: the index read threw while two workers were in the snapshot
C21_Witness ==
    \E t \in Runs :
        /\ refresh[t].pc = "done" /\ refresh[t].threw /\ ~refresh[t].indexRead
        /\ DOMAIN workers = WorkerIds
        /\ workers = refresh[t].before

\* C22: a call that read the index as missing or as the empty list while the
\* snapshot held workers removed none of them and published no
\* gateway:worker:offline.
C22_EmptyIndexKeepsWorkers ==
    \A t \in Runs :
        (refresh[t].pc = "done" /\ refresh[t].indexRead /\ ~refresh[t].threw
            /\ refresh[t].ids = <<>> /\ DOMAIN refresh[t].before /= {}) =>
            /\ DOMAIN refresh[t].before \subseteq DOMAIN workers
            /\ \A id \in WorkerIds :
                  EventCount(refresh[t].events, "gateway:worker:offline", id) = 0

\* C23: a worker a call removed and reported offline was absent from the index
\* read of that call and from the index read of the call before it.
C23_RemovedAfterTwoAbsences ==
    \A t \in Runs :
        refresh[t].pc = "done" =>
            \A id \in WorkerIds :
                EventCount(refresh[t].events, "gateway:worker:offline", id) > 0 =>
                    /\ refresh[t].prior /= <<>>
                    /\ id \notin Range(refresh[t].prior[1])

\* C24: a call that ended because a status read threw left the snapshot as it
\* found it and published no event.
C24_StatusFailureKeepsSnapshot ==
    \A t \in Runs :
        (refresh[t].pc = "done" /\ refresh[t].threw /\ refresh[t].indexRead) =>
            /\ workers = refresh[t].before
            /\ refresh[t].events = <<>>

\* The number of times the event was published for the job by the method
Times(name, jobId, by) ==
    SumOver([e \in DOMAIN jobLog.events |->
                IF e.name = name /\ e.jobId = jobId /\ e.by = by THEN jobLog.events[e] ELSE 0],
            DOMAIN jobLog.events)

\* trackJob cached the job once, while it was queued
TrackedWhileQueued(jobId) ==
    /\ Times("gateway:job:submitted", jobId, "trackJob") = 1
    /\ \E e \in DOMAIN jobLog.events :
          e.by = "trackJob" /\ e.jobId = jobId /\ e.status = "queued"

\* C25: with the tracker called sequentially on a job that trackJob cached
\* while it was queued and that the queue moves forward, gateway:job:completed
\* is published at most once, exactly once when the cache holds the completed
\* record, and a getJobStatus call that found a completed or failed record
\* cached returned that record without reading the store.
C25_CompletedOnce ==
    /\ \A id \in JobIds :
          TrackedWhileQueued(id) =>
              /\ Times("gateway:job:completed", id, "getJobStatus") <= 1
              /\ (id \in DOMAIN jobs /\ jobs[id].status = "completed") =>
                    Times("gateway:job:completed", id, "getJobStatus") = 1
    /\ \A c \in Callers :
          (jobCall[c].pc /= "idle" /\ jobCall[c].op = "getJobStatus"
              /\ jobCall[c].cached /= <<>>
              /\ jobCall[c].cached[1].status \in {"completed", "failed"}) =>
              /\ jobCall[c].pc = "done"
              /\ jobCall[c].reads = 0
              /\ jobCall[c].result = jobCall[c].cached

\* C25 witness: the job was tracked while queued, seen processing, seen
\* completed, and a later lookup returned the cached record
C25_Witness ==
    \E c \in Callers :
        /\ TrackedWhileQueued("j1")
        /\ Times("gateway:job:submitted", "j1", "getJobStatus") = 1
        /\ Times("gateway:job:completed", "j1", "getJobStatus") = 1
        /\ jobCall[c].pc = "done" /\ jobCall[c].op = "getJobStatus"
        /\ jobCall[c].reads = 0
        /\ jobCall[c].result = <<[job_id |-> "j1", status |-> "completed"]>>

\* The event the claim names for a status
LifecycleEvent(status) ==
    IF status = "completed" THEN "gateway:job:completed"
    ELSE IF status = "failed" THEN "gateway:job:failed"
    ELSE "gateway:job:submitted"

\* C26, one step: a getJobStatus call fetches a record
C26_Fetch(c) ==
    (jobCall[c].pc = "read" /\ jobCall[c].op = "getJobStatus" /\ jobCall'[c].fetched) =>
        LET id == jobCall[c].jobId
            rec == store[JobKey(id)]
            previous == Cached(jobs, id)
        IN  /\ jobs'[id] = rec
            /\ IF previous = <<>> \/ previous[1].status /= rec.status
                 THEN jobLog'.events =
                        Publish(jobLog.events,
                                <<JobEvent(LifecycleEvent(rec.status), rec, "getJobStatus")>>)
                 ELSE jobLog'.events = jobLog.events

\* C26: a getJobStatus call that fetches a record overwrites the cache with it
\* and publishes exactly one event, the one of the record's status, when the
\* status differs from the cached one or nothing was cached, and no event when
\* the status is the cached one.
C26_EventPerChange == [][\A c \in Callers : C26_Fetch(c)]_vars

\* C27, one step: a read of the tracker settles without a record
C27_NoRecord(c) ==
    (jobCall[c].pc = "read" /\ jobCall'[c].pc /= "read"
        /\ (jobCall'[c].threw \/ JobKey(jobCall[c].jobId) \notin DOMAIN store)) =>
        /\ jobCall'[c].pc = "done"
        /\ ~jobCall'[c].raised
        /\ jobs' = jobs
        /\ jobLog'.events = jobLog.events
        /\ jobCall[c].op = "getJobStatus" => jobCall'[c].result = jobCall[c].cached

\* C27: no call of the tracker ends with an error; a read that throws or finds
\* no record leaves the cache as it is and publishes nothing, and getJobStatus
\* then returns the record that was cached when it was called, or absent.
C27_NeverRaises ==
    /\ [](\A c \in Callers : jobCall[c].pc /= "idle" => ~jobCall[c].raised)
    /\ [][\A c \in Callers : C27_NoRecord(c)]_vars

\* C27 witness: a getJobStatus call whose read threw returned the cached
\* queued record, and a trackJob call found no record
C27_Witness ==
    /\ jobCall["c1"].pc = "done" /\ jobCall["c1"].op = "getJobStatus"
    /\ jobCall["c1"].threw
    /\ jobCall["c1"].result = <<[job_id |-> "j1", status |-> "queued"]>>
    /\ jobCall["c2"].pc = "done" /\ jobCall["c2"].op = "trackJob"
    /\ ~jobCall["c2"].threw /\ ~jobCall["c2"].fetched

\* The first parts of the keys that begin with 'gateway:'
GatewayNames == {"gateway:ratelimit:", "gateway:cache:", "gateway:health:ping"}

\* The first parts of the keys that begin with 'worker:' or 'queue:'
ExternalNames == {"worker:index", "worker:", "queue:job:"}

\* The key begins with 'gateway:'
InGatewayNamespace(key) == key[1] \in GatewayNames

\* The step sets, replaces or deletes the key's value
Changed(k) ==
    \/ (k \in DOMAIN store) /= (k \in DOMAIN store')
    \/ k \in DOMAIN store /\ k \in DOMAIN store' /\ store[k] /= store'[k]

\* The step is one of the worker processes or of the job queue, not of the
\* gateway
ExternalWrite ==
    \/ \E index \in Indexes : RemoteIndex(index)
    \/ RemoteIndexGone
    \/ \E id \in WorkerIds, rec \in StatusRecords, present \in BOOLEAN :
           RemoteStatus(id, rec, present)
    \/ \E id \in JobIds, rec \in JobRecords : RemoteJob(id, rec)

\* C28: every key a step of the gateway sets, replaces or deletes in the store
\* begins with 'gateway:'; the keys under 'worker:' and 'queue:' change only
\* in the steps of their external writers, and the store holds no other key.
C28_NamespaceIsolation ==
    /\ [](\A k \in DOMAIN store : k[1] \in GatewayNames \cup ExternalNames)
    /\ [][\/ store' = store
          \/ \A k \in DOMAIN store \cup DOMAIN store' : Changed(k) => InGatewayNamespace(k)
          \/ ExternalWrite]_vars

\* C28 witness: the rate limiter, the cache and the health check have each
\* written their key, next to the keys of the workers and of the job queue
C28_Witness ==
    /\ \A name \in GatewayNames : \E k \in DOMAIN store : k[1] = name
    /\ WorkerIndexKey \in DOMAIN store
    /\ JobKey("j1") \in DOMAIN store
    /\ refresh["t1"].pc = "done"
    /\ jobCall["c1"].pc = "done"

\* C29: under round-robin with n >= 2 backends the k-th selectTarget call
\* returned backends[(k-1) mod n] and found the counter at k-1, the counter is
\* the number of calls made, and any n calls in a row returned every backend
\* exactly once.
C29_RoundRobin ==
    LET n == Len(backends)
    IN  (config.strategy = "round-robin" /\ n >= 2) =>
            /\ rrIndex = Len(picked)
            /\ \A k \in DOMAIN picked :
                  /\ picked[k].target = backends[((k - 1) % n) + 1]
                  /\ picked[k].rrIndex = k - 1
            /\ \A k \in 1..(Len(picked) - n + 1) : \A i \in 1..n :
                  Cardinality({j \in k..(k + n - 1) : picked[j].target = backends[i]}) = 1

\* C29 witness: backends [X, Y, Z] called four times returned X, Y, Z, X
C29_Witness ==
    /\ config.strategy = "round-robin"
    /\ backends = <<"X", "Y", "Z">>
    /\ [k \in DOMAIN picked |-> picked[k].target] = <<"X", "Y", "Z", "X">>

\* C30: with one backend every selectTarget call, under every strategy and
\* with or without a region hint, returned that backend and left the
\* round-robin counter as it was.
C30_SingleBackend ==
    Len(backends) = 1 =>
        /\ rrIndex = 0
        /\ \A k \in DOMAIN picked :
              picked[k].target = backends[1] /\ picked[k].rrIndex = 0

\* C30 witness: calls with and without a region hint under a strategy that
\* rotates when there are several backends
C30_Witness ==
    /\ Len(backends) = 1
    /\ config.strategy = "region-affinity"
    /\ {picked[k].region : k \in DOMAIN picked} = Regions

\* The requests routed to backend b that the middleware has not handed on yet
InFlight(b) == Cardinality({r \in Procs : rq[r].targetUrl = b})

\* The backend a step selected: for a request, or for a call of the API
Selected ==
    {rq'[r].targetUrl : r \in {x \in Procs : rq[x].targetUrl = None /\ rq'[x].targetUrl /= None}}
        \cup (IF Len(picked') > Len(picked) THEN {picked'[Len(picked')].target} ELSE {})

DeclaredRegions == {"us-east", "eu-west"}

RateLimitRan(r) ==
    /\ Len(rq'[r].ran) = Len(rq[r].ran) + 1
    /\ rq'[r].ran[Len(rq'[r].ran)] = "ratelimit"

\* C33: for a request to a '/gateway/' path the rate-limit handler returns in
\* the step it is invoked in, with no store call pending, and leaves the
\* store, the in-memory counters, context.rateLimitInfo, the published events,
\* the response and the event's cancellation as they were.
C33_GatewayPathSkipped ==
    [][\A r \in Procs :
          (rq[r].url = GatewayUrl /\ RateLimitRan(r)) =>
              /\ rq'[r].pc = "dispatch" /\ rq'[r].hidx = rq[r].hidx + 1
              /\ store' = store
              /\ memoryCounters' = memoryCounters
              /\ admitted' = admitted /\ memAdmitted' = memAdmitted
              /\ rq'[r].rateLimitInfo = NoInfo /\ rq'[r].rlMode = None
              /\ rq'[r].events = rq[r].events
              /\ rq'[r].status = rq[r].status
              /\ rq'[r].touched = rq[r].touched
              /\ rq'[r].cancelled = rq[r].cancelled /\ ~rq'[r].cancelled]_vars

\* C33 witness: the rate-limit handler returned for a request to
\* /gateway/health while a window in the store was full.
C33_Witness ==
    \E r \in Procs :
        /\ rq[r].url = GatewayUrl
        /\ "ratelimit" \in Range(rq[r].ran)
        /\ rq[r].rateLimitInfo = NoInfo
        /\ \E k \in DOMAIN store : Len(store[k]) >= config.maxRequests

\* The clients with an admission on record, by the store or by the fallback
Admitted == DOMAIN admitted \cup DOMAIN memAdmitted

\* C34: at every instant the requests of one client admitted within the last
\* windowMs, by the store-mode check and by the fallback together (the
\* fallback's being those of the windows begun within the last windowMs),
\* number at most maxRequests.
C34_CombinedLimit ==
    \A k \in Admitted :
        WindowCount(admitted, k, clock - config.windowMs, clock)
            + WindowCount(memAdmitted, k, clock - config.windowMs, clock)
          <= config.maxRequests

\* C40: after a tick that read the index and every status it asked for, a
\* worker of the index whose status record was missing is as it was before
\* the tick: in the snapshot with its former record and without an offline or
\* updated event, or not in the snapshot and without an online event; and
\* every id of the snapshot is in the tick's index.
C40_MissingRecordSkipped ==
    \A t \in Runs :
        LET run == refresh[t]
        IN  (run.pc = "done" /\ run.indexRead /\ ~run.threw) =>
                /\ \A id \in Range(run.ids) \ DOMAIN run.fetched :
                      /\ \A i \in DOMAIN run.events : run.events[i][2] /= id
                      /\ IF id \in DOMAIN run.before
                           THEN id \in DOMAIN workers /\ workers[id] = run.before[id]
                           ELSE id \notin DOMAIN workers
                /\ DOMAIN workers \subseteq Range(run.ids)

\* C40 witness: a tick ended with worker A, listed without a status record,
\* kept from before, and worker B, listed without a status record, left out.
C40_Witness ==
    \E t \in Runs :
        /\ refresh[t].pc = "done" /\ refresh[t].indexRead /\ ~refresh[t].threw
        /\ Range(refresh[t].ids) = {"A", "B"}
        /\ refresh[t].fetched = << >>
        /\ DOMAIN refresh[t].before = {"A"}
        /\ DOMAIN workers = {"A"}

\* C35: when a tick and the tick that started during it have both ended, a
\* worker that was in the snapshot when both started has at most one offline
\* event in the two, a worker that was in it when neither started has at most
\* one online event, and the snapshot holds only ids of the index that one of
\* the two read, as it does when the two run one after the other in either
\* order.
C35_OverlapSafe ==
    LET one == refresh["t1"]
        other == refresh["t2"]
        both(name, id) == EventCount(one.events, name, id)
                              + EventCount(other.events, name, id)
    IN  (one.pc = "done" /\ other.pc = "done") =>
            /\ \A id \in DOMAIN one.before \cap DOMAIN other.before :
                  both("gateway:worker:offline", id) <= 1
            /\ \A id \in WorkerIds \ (DOMAIN one.before \cup DOMAIN other.before) :
                  both("gateway:worker:online", id) <= 1
            /\ \/ DOMAIN workers \subseteq Range(one.ids)
               \/ DOMAIN workers \subseteq Range(other.ids)

\* A cached completed or failed record keeps its status in this step
TerminalKept ==
    \A id \in DOMAIN jobs :
        IsTerminal(<<jobs[id]>>) =>
            id \in DOMAIN jobs' /\ jobs'[id].status = jobs[id].status

\* The number of times the event was published for the job
TimesPublished(name, jobId) ==
    SumOver([e \in DOMAIN jobLog.events |->
                IF e.name = name /\ e.jobId = jobId THEN jobLog.events[e] ELSE 0],
            DOMAIN jobLog.events)

\* Each of gateway:job:completed and gateway:job:failed was published at most
\* once per job
TerminalEventOnce ==
    \A id \in JobIds :
        /\ TimesPublished("gateway:job:completed", id) <= 1
        /\ TimesPublished("gateway:job:failed", id) <= 1

\* C36: under concurrent getJobStatus and trackJob calls on one job id whose
\* store reads are answered in any order, a cached completed or failed record
\* keeps its status in every step, and gateway:job:completed and
\* gateway:job:failed are each published at most once per job.
C36_TerminalNeverReplaced == [](TerminalEventOnce) /\ [][TerminalKept]_vars

\* C37: two requests that were authenticated with different API keys or
\* different bearer tokens are checked against different gateway:ratelimit
\* keys.
C37_ClientIsolation ==
    \A r, p \in Procs :
        (rq[r].auth.type /= None /\ rq[p].auth.type /= None
            /\ rq[r].headers /= rq[p].headers) =>
            RateLimitKey(ClientKey(rq[r])) /= RateLimitKey(ClientKey(rq[p]))

\* C38: every request the rate limiter answered with a 429 and cancelled, by
\* the store-mode check or by the fallback, has gateway:ratelimit:exceeded
\* among the events published for it.
C38_RejectionPublished ==
    \A r \in Procs :
        (rq[r].rlMode /= None /\ ~rq[r].rlAllowed /\ rq[r].status = 429
            /\ rq[r].cancelled) =>
            "gateway:ratelimit:exceeded" \in rq[r].events

\* A refreshWorkers call begins in this step
TickStarts == \E t \in Runs : refresh[t].pc \in {"idle", "done"} /\ refresh'[t].pc = "index"

\* C39: once stop() has returned, with no start() call in progress or made
\* since, no refreshWorkers call begins, however often start() was called
\* before; stop() with no timer stored changes nothing, and stop() leaves the
\* snapshot as it is.
C39_StoppedStaysStopped ==
    [][/\ (poll.stopped /\ poll'.started = poll.started) => ~TickStarts
       /\ Stop => /\ workers' = workers /\ refresh' = refresh
                  /\ poll.pollInterval = NoTimer =>
                        (poll'.live = poll.live /\ poll'.pollInterval = NoTimer)]_vars

====
